---- MODULE Spec2Model ----
(***************************************************************************)
(* A model of the etcd v2 client: the request dispatch core of client.rs   *)
(* (first_ok, request_first_ok, request_on_each_endpoint and the response  *)
(* parser), the option encoders of options.rs and the key-value adapter of *)
(* kv.rs, watch and its deadline included.                                 *)
(*                                                                         *)
(* One logical call runs at a time.  A step of the model is the code that  *)
(* runs between two suspension points of the async call: an API function   *)
(* runs from its entry to the first `.send().await`, and the completion of *)
(* a request runs the handler's parsing, the loop's bookkeeping and, when  *)
(* the loop goes on, the start of the next request.                        *)
(*                                                                         *)
(* The fields of a record are written in one order throughout the module.  *)
(***************************************************************************)
EXTENDS Naturals, Sequences, FiniteSets, TLC

VARIABLES
    endpoints,  \* Client.endpoints: the configured list, fixed by ClientBuilder::new
    pc,         \* where the current call is suspended
    call,       \* the API function running and its arguments
    request,    \* what the handler closure captured: method, path, query, body, predicate
    order,      \* first_ok: the local, shuffled copy of the endpoint list
    idx,        \* position of the loop in order (first_ok) or in endpoints (broadcast)
    errors,     \* first_ok: the error accumulator
    results,    \* request_on_each_endpoint: the per-endpoint results
    inflight,   \* endpoints with a request of this call outstanding
    sent,       \* the requests this call put on the wire, in order (endpoint and request)
    lastReply,  \* what the network delivered for the request that completed last
    log,        \* per completed request: the endpoint and what the handler returned
    result,     \* what the call returned to its caller
    clock       \* the time since the current call started, in ticks

vars == <<endpoints, pc, call, request, order, idx, errors, results,
          inflight, sent, lastReply, log, result, clock>>

(***************************************************************************)
(* Bounds of the model.                                                    *)
(***************************************************************************)
MaxEndpoints == 2

(***************************************************************************)
(* Option<T>: None is the empty sequence, Some(x) the one-element one.     *)
(***************************************************************************)
None == <<>>
Some(x) == <<x>>
is_some(o) == o # <<>>
is_none(o) == o = <<>>
unwrap(o) == o[1]

(***************************************************************************)
(* Inputs the callers pass.                                                *)
(***************************************************************************)
Keys == {"/test/foo"}
Values == {"bar"}
Ttls == {None, Some(60)}
CurrentValues == {None, Some("bar")}
ModifiedIndexes == {None, Some(7)}
WaitIndexes == {None, Some(5)}
Timeouts == {None, Some(1)}

(***************************************************************************)
(* options.rs                                                              *)
(***************************************************************************)
bool_to_str(b) == IF b THEN "true" ELSE "false"

Digit(d) ==
    CASE d = 0 -> "0" [] d = 1 -> "1" [] d = 2 -> "2" [] d = 3 -> "3" [] d = 4 -> "4"
      [] d = 5 -> "5" [] d = 6 -> "6" [] d = 7 -> "7" [] d = 8 -> "8" [] OTHER -> "9"

RECURSIVE to_string(_)
to_string(n) == IF n < 10 THEN Digit(n) ELSE to_string(n \div 10) \o Digit(n % 10)

\* Serializer::append_pair: the serializer is the list of pairs appended so far.
append_pair(serializer, name, value) == Append(serializer, <<name, value>>)

\* append_pair under `if let Some(v) = opt`
append_some(serializer, name, opt) ==
    IF is_some(opt) THEN append_pair(serializer, name, unwrap(opt)) ELSE serializer

map_opt_bool(o) == IF is_some(o) THEN Some(bool_to_str(unwrap(o))) ELSE None
map_opt_num(o) == IF is_some(o) THEN Some(to_string(unwrap(o))) ELSE None

\* Error::InvalidConditions (error.rs is not among the sources)
ErrorInvalidConditions == [kind |-> "InvalidConditions", message |-> ""]

\* Result<String, Error> / Result<Bytes, Error> of an encoder
EncOk(v) == [ok |-> TRUE, val |-> v, err |-> [kind |-> "none", message |-> ""]]
EncErr(e) == [ok |-> FALSE, val |-> <<>>, err |-> e]

\* is_empty looking at the modified index alone, and the wrong way round
is_empty_index_given(conditions) == is_some(conditions.modified_index)

\* ComparisonConditions::is_empty
is_empty(conditions) == is_none(conditions.modified_index) /\ is_none(conditions.value)

\* the `if let Some(conditions) = self.conditions { ... }` block both encoders end with
append_conditions(serializer, conditions) ==
    IF is_some(conditions)
    THEN IF is_empty(unwrap(conditions))
         THEN EncErr(ErrorInvalidConditions)
         ELSE EncOk(append_some(
                  append_some(serializer, "prevIndex",
                              map_opt_num(unwrap(conditions).modified_index)),
                  "prevValue", unwrap(conditions).value))
    ELSE EncOk(serializer)

DefaultGetOptions ==
    [strong_consistency |-> FALSE, recursive |-> FALSE, sort |-> None,
     wait |-> FALSE, wait_index |-> None]

DefaultDeleteOptions == [conditions |-> None, recursive |-> None, dir |-> None]

DefaultSetOptions ==
    [value |-> None, conditions |-> None, dir |-> None, create_in_order |-> FALSE,
     prev_exist |-> None, ttl |-> None, refresh |-> FALSE]

\* GetOptions::into_query_params
get_into_query_params(o) ==
    LET s1 == append_pair(<<>>, "recursive", bool_to_str(o.recursive))
        s2 == append_some(s1, "sorted", map_opt_bool(o.sort))
        s3 == IF o.wait THEN append_pair(s2, "wait", bool_to_str(TRUE)) ELSE s2
    IN  append_some(s3, "waitIndex", map_opt_num(o.wait_index))

\* DeleteOptions::into_query_params
delete_into_query_params(o) ==
    LET s1 == append_some(<<>>, "recursive", map_opt_bool(o.recursive))
        s2 == append_some(s1, "dir", map_opt_bool(o.dir))
    IN  append_conditions(s2, o.conditions)

\* into_request_body emitting prevExist only when the caller set prev_exist
into_request_body_prev_exist_as_given(o) ==
    LET s1 == append_some(<<>>, "value", o.value)
        s2 == append_some(s1, "ttl", map_opt_num(o.ttl))
        s3 == append_some(s2, "dir", map_opt_bool(o.dir))
        s4 == append_some(s3, "prevExist", map_opt_bool(o.prev_exist))
        s5 == IF o.refresh THEN append_pair(s4, "refresh", bool_to_str(TRUE)) ELSE s4
    IN  append_conditions(s5, o.conditions)

\* SetOptions::into_request_body
into_request_body(o) ==
    LET s1 == append_some(<<>>, "value", o.value)
        s2 == append_some(s1, "ttl", map_opt_num(o.ttl))
        s3 == append_some(s2, "dir", map_opt_bool(o.dir))
        prev_exist == IF is_some(o.prev_exist) THEN o.prev_exist
                      ELSE IF o.refresh THEN Some(TRUE) ELSE None
        s4 == append_some(s3, "prevExist", map_opt_bool(prev_exist))
        s5 == IF o.refresh THEN append_pair(s4, "refresh", bool_to_str(TRUE)) ELSE s4
    IN  append_conditions(s5, o.conditions)

(***************************************************************************)
(* The Error variants client.rs constructs.                                 *)
(***************************************************************************)
ErrorHttp == [kind |-> "Http", message |-> ""]
ErrorSerialization == [kind |-> "Serialization", message |-> ""]
ErrorApi(api_error) == [kind |-> "Api", message |-> api_error]

(***************************************************************************)
(* The Error variants client.rs and auth.rs construct.                     *)
(***************************************************************************)
ErrorUnexpectedStatus(status_code) ==
    [kind |-> "UnexpectedStatus", message |-> to_string(status_code)]

(***************************************************************************)
(* client.rs: ClusterInfo.  A header value is the sequence of its bytes; a *)
(* byte is an ASCII character or "0xFF", a byte no UTF-8 text contains.    *)
(* The String decoded from a value is the sequence of its characters.      *)
(***************************************************************************)
Digits == {"0", "1", "2", "3", "4", "5", "6", "7", "8", "9"}

DigitValue(ch) ==
    CASE ch = "0" -> 0 [] ch = "1" -> 1 [] ch = "2" -> 2 [] ch = "3" -> 3 [] ch = "4" -> 4
      [] ch = "5" -> 5 [] ch = "6" -> 6 [] ch = "7" -> 7 [] ch = "8" -> 8 [] OTHER -> 9

\* String::from_utf8(v.as_bytes().to_vec()): Some(text), or None for Err
from_utf8(bytes) ==
    IF \E i \in 1..Len(bytes) : bytes[i] = "0xFF" THEN None ELSE Some(bytes)

RECURSIVE parse_digits(_, _)
parse_digits(s, n) ==
    IF n = 0 THEN 0 ELSE 10 * parse_digits(s, n - 1) + DigitValue(s[n])

\* str::parse::<u64>: Some(number), or None for Err
parse(s) ==
    IF Len(s) > 0 /\ \A i \in 1..Len(s) : s[i] \in Digits
    THEN Some(parse_digits(s, Len(s)))
    ELSE None

\* headers.get(NAME).and_then(|v| match String::from_utf8(..) { Ok(s) => Some(s), Err => None })
header_text(header) ==
    IF is_some(header) THEN from_utf8(unwrap(header)) ELSE None

\* headers.get(NAME).and_then(|v| match String::from_utf8(..).and_then(|s| s.parse()) {..})
header_number(header) ==
    IF is_some(header_text(header)) THEN parse(unwrap(header_text(header))) ELSE None

\* the cluster information taken from the body instead of the headers: none at all
cluster_info_from_nothing(headers) ==
    [cluster_id |-> None, etcd_index |-> None, raft_index |-> None, raft_term |-> None]

\* a decoder that gives up on all four fields when one header does not decode
cluster_info_from_all_or_none(headers) ==
    IF \/ is_some(headers.cluster_id) /\ is_none(header_text(headers.cluster_id))
       \/ is_some(headers.etcd_index) /\ is_none(header_number(headers.etcd_index))
       \/ is_some(headers.raft_index) /\ is_none(header_number(headers.raft_index))
       \/ is_some(headers.raft_term) /\ is_none(header_number(headers.raft_term))
    THEN [cluster_id |-> None, etcd_index |-> None, raft_index |-> None, raft_term |-> None]
    ELSE [cluster_id |-> header_text(headers.cluster_id),
          etcd_index |-> header_number(headers.etcd_index),
          raft_index |-> header_number(headers.raft_index),
          raft_term |-> header_number(headers.raft_term)]

\* impl From<&HeaderMap<HeaderValue>> for ClusterInfo
cluster_info_from(headers) ==
    [cluster_id |-> header_text(headers.cluster_id),
     etcd_index |-> header_number(headers.etcd_index),
     raft_index |-> header_number(headers.raft_index),
     raft_term |-> header_number(headers.raft_term)]

NoHeaders == [cluster_id |-> None, etcd_index |-> None, raft_index |-> None, raft_term |-> None]

\* the headers of an answer of a healthy member
MemberHeaders ==
    [cluster_id |-> Some(<<"7", "e", "2">>), etcd_index |-> Some(<<"4", "2">>),
     raft_index |-> Some(<<"9">>), raft_term |-> Some(<<"2">>)]

(***************************************************************************)
(* What the network can deliver for one request: a transport error from    *)
(* send(), or a response with a status, headers and a body.  A body is     *)
(* unreadable (bytes() fails), decodes as the payload type T, decodes as   *)
(* an ApiError, or decodes as neither.                                     *)
(***************************************************************************)
StatusCodes == {200, 201, 412}
Payloads == {"bar", "baz"}
IndexCleared == "The event in requested index is outdated and cleared"
Messages == {"Key already exists", "Compare failed", IndexCleared}

Bodies ==
    [kind : {"data"}, payload : Payloads] \cup
    [kind : {"api"}, payload : Messages] \cup
    [kind : {"garbage", "unreadable"}, payload : {""}]

NoBody == [kind |-> "none", payload |-> ""]

TransportError == [kind |-> "transport", headers |-> NoHeaders, status |-> 0, body |-> NoBody]

Replies ==
    {TransportError} \cup
    [kind : {"response"}, headers : {MemberHeaders}, status : StatusCodes, body : Bodies]

NoReply == [kind |-> "none", headers |-> NoHeaders, status |-> 0, body |-> NoBody]

\* What a member answers on /v2/members and /v2/auth.  The value a JSON body
\* decodes to is a record: ListResponse reads its members, AuthStatus its
\* enabled, the other payload types are the value as a whole.
AdminStatusCodes == {200, 201, 204, 404, 409}
Documents == {[members |-> "default", enabled |-> "false"]}
AdminMessages == {"The request requires user authentication"}

AdminBodies ==
    [kind : {"data"}, payload : Documents] \cup
    [kind : {"api"}, payload : AdminMessages] \cup
    [kind : {"garbage", "unreadable"}, payload : {""}]

AdminReplies ==
    {TransportError} \cup
    [kind : {"response"}, headers : {MemberHeaders}, status : AdminStatusCodes,
     body : AdminBodies]

\* the outcomes of `....send().await` and of reading the body, for a request req
RepliesTo(req) == IF req.api \in {"members", "auth"} THEN AdminReplies ELSE Replies

\* Result<Response<T>, Error> of one handler invocation
NoResponse == [data |-> "", cluster_info |-> cluster_info_from(NoHeaders)]
NoError == [kind |-> "none", message |-> ""]
HOk(response) == [ok |-> TRUE, val |-> response, err |-> NoError]
HErr(error) == [ok |-> FALSE, val |-> NoResponse, err |-> error]

(***************************************************************************)
(* The response parsers of client.rs and auth.rs.  status_code_is_success  *)
(* is the set of statuses the predicate accepts.                           *)
(***************************************************************************)
OK == 200
CREATED == 201
NO_CONTENT == 204
CONFLICT == 409

\* parse_etcd_response taking every answer with an ApiError body for an Api error
parse_etcd_response_api_first(response, status_code_is_success) ==
    IF response.body.kind = "unreadable"
    THEN HErr(ErrorHttp)
    ELSE IF response.body.kind = "api"
         THEN HErr(ErrorApi(response.body.payload))
         ELSE IF response.status \in status_code_is_success /\ response.body.kind = "data"
              THEN HOk([data |-> response.body.payload,
                        cluster_info |-> cluster_info_from(response.headers)])
              ELSE HErr(ErrorSerialization)

\* client.rs parse_etcd_response
parse_etcd_response(response, status_code_is_success) ==
    LET status_code == response.status
        cluster_info == cluster_info_from(response.headers)
    IN  IF response.body.kind = "unreadable"
        THEN HErr(ErrorHttp)
        ELSE IF status_code \in status_code_is_success
             THEN IF response.body.kind = "data"
                  THEN HOk([data |-> response.body.payload, cluster_info |-> cluster_info])
                  ELSE HErr(ErrorSerialization)
             ELSE IF response.body.kind = "api"
                  THEN HErr(ErrorApi(response.body.payload))
                  ELSE HErr(ErrorSerialization)

\* parse_empty_response taking every 2xx status of the model for a success
parse_empty_response_any_2xx(response) ==
    IF response.body.kind = "unreadable"
    THEN HErr(ErrorHttp)
    ELSE IF response.status \in {OK, CREATED, NO_CONTENT}
         THEN HOk([data |-> "()", cluster_info |-> cluster_info_from(response.headers)])
         ELSE IF response.body.kind = "api"
              THEN HErr(ErrorApi(response.body.payload))
              ELSE HErr(ErrorSerialization)

\* client.rs parse_empty_response
parse_empty_response(response) ==
    LET status_code == response.status
        cluster_info == cluster_info_from(response.headers)
    IN  IF response.body.kind = "unreadable"
        THEN HErr(ErrorHttp)
        ELSE IF status_code = NO_CONTENT
             THEN HOk([data |-> "()", cluster_info |-> cluster_info])
             ELSE IF response.body.kind = "api"
                  THEN HErr(ErrorApi(response.body.payload))
                  ELSE HErr(ErrorSerialization)

\* auth.rs parse_auth_response
parse_auth_response(response, status_code_is_success) ==
    LET status_code == response.status
        cluster_info == cluster_info_from(response.headers)
    IN  IF response.body.kind = "unreadable"
        THEN HErr(ErrorHttp)
        ELSE IF status_code \in status_code_is_success
             THEN IF response.body.kind = "data"
                  THEN HOk([data |-> response.body.payload, cluster_info |-> cluster_info])
                  ELSE HErr(ErrorSerialization)
             ELSE HErr(ErrorUnexpectedStatus(status_code))

\* parse_auth_change_response taking 409 for an error like any other status
parse_auth_change_response_conflict_fails(response) ==
    IF response.status = OK
    THEN HOk([data |-> "Changed", cluster_info |-> cluster_info_from(response.headers)])
    ELSE HErr(ErrorUnexpectedStatus(response.status))

\* auth.rs parse_auth_change_response: the body is not read
parse_auth_change_response(response) ==
    LET status == response.status
        cluster_info == cluster_info_from(response.headers)
    IN  CASE status = OK -> HOk([data |-> "Changed", cluster_info |-> cluster_info])
          [] status = CONFLICT -> HOk([data |-> "Unchanged", cluster_info |-> cluster_info])
          [] OTHER -> HErr(ErrorUnexpectedStatus(status))

\* the parser a handler closure ends with
parses(response, req) ==
    CASE req.parser = "etcd" -> parse_etcd_response(response, req.success)
      [] req.parser = "empty" -> parse_empty_response(response)
      [] req.parser = "auth" -> parse_auth_response(response, req.success)
      [] OTHER -> parse_auth_change_response(response)

\* `Ok(Response { cluster_info: response.cluster_info, data: response.data.<field> })`
\* of members::list and auth::status: the decoded value is a record, the
\* handler returns one field of it
unwraps(res, req) ==
    IF res.ok /\ is_some(req.field)
    THEN HOk([res.val EXCEPT !.data = res.val.data[unwrap(req.field)]])
    ELSE res

\* `....send().await?` followed by the parser: the body of every handler closure
handler(reply, req) ==
    IF reply.kind = "transport"
    THEN HErr(ErrorHttp)
    ELSE unwraps(parses(reply, req), req)

(***************************************************************************)
(* Endpoints.  The i-th configured endpoint is the base URL of member i.   *)
(***************************************************************************)
endpoint_url(i) == "http://etcd" \o to_string(i) \o ":2379/"

EndpointLists == { [i \in 1..n |-> endpoint_url(i)] : n \in 1..MaxEndpoints }

Range(s) == { s[i] : i \in 1..Len(s) }

\* kv.rs build_url: "{endpoint}v2/keys{path}?{query}" or "{endpoint}v2/keys{path}"
kv_build_url(endpoint, path, query_params) ==
    [endpoint |-> endpoint, path |-> "v2/keys" \o path, query |-> query_params]

\* client.rs build_url, and the format! of request_first_ok: "{endpoint}{path}"
build_url(endpoint, path) == [endpoint |-> endpoint, path |-> path, query |-> None]

\* members.rs build_url: "{endpoint}v2/members{path}"
members_build_url(endpoint, path) ==
    [endpoint |-> endpoint, path |-> "v2/members" \o path, query |-> None]

\* auth.rs build_url: "{endpoint}v2/auth{path}"
auth_build_url(endpoint, path) ==
    [endpoint |-> endpoint, path |-> "v2/auth" \o path, query |-> None]

\* a handler that hands its body over to the request for the first configured
\* endpoint and has none left for the others
wire_body_moved(e, req) ==
    [body |-> IF e = endpoints[1] THEN req.body ELSE None,
     endpoint |-> e,
     method |-> req.method,
     url |-> CASE req.api = "keys" -> kv_build_url(e, req.path, req.query)
               [] req.api = "members" -> members_build_url(e, req.path)
               [] req.api = "auth" -> auth_build_url(e, req.path)
               [] OTHER -> build_url(e, req.path)]

\* the request one handler invocation puts on the wire for endpoint e; req.api
\* says which module's build_url the closure calls
wire(e, req) ==
    [body |-> req.body,
     endpoint |-> e,
     method |-> req.method,
     url |-> CASE req.api = "keys" -> kv_build_url(e, req.path, req.query)
               [] req.api = "members" -> members_build_url(e, req.path)
               [] req.api = "auth" -> auth_build_url(e, req.path)
               [] OTHER -> build_url(e, req.path)]

NoRequest ==
    [body |-> None, api |-> "none", parser |-> "none", success |-> {}, field |-> None,
     path |-> "", query |-> None, method |-> "none"]

(***************************************************************************)
(* client.rs: shuffled_endpoints.  SliceRandom::shuffle is Fisher-Yates:   *)
(* for i from the last position down to the second, swap position i with a *)
(* position the generator draws from the first i.  c[i] is that draw.      *)
(***************************************************************************)
swap(s, i, j) == [s EXCEPT ![i] = s[j], ![j] = s[i]]

\* the draws one shuffle of n elements takes from thread_rng()
gen_indexes(n) == { c \in [2..n -> 1..n] : \A i \in 2..n : c[i] <= i }

RECURSIVE shuffle(_, _, _)
shuffle(s, i, c) == IF i < 2 THEN s ELSE shuffle(swap(s, i, c[i]), i - 1, c)

\* the copy of the endpoint list left as it was configured
unshuffled_endpoints == {endpoints}

\* an endpoint drawn at random for each attempt, instead of a shuffle
shuffled_with_replacement == [1..Len(endpoints) -> Range(endpoints)]

shuffled_endpoints ==
    { shuffle(endpoints, Len(endpoints), c) : c \in gen_indexes(Len(endpoints)) }

(***************************************************************************)
(* What a call returns.                                                    *)
(*   kind "Response":  Ok(Response { data, .. })                           *)
(*   kind "Errors":    Err(Vec<Error>)                                     *)
(*   kind "Error":     Err(Error)               (request_first_ok)         *)
(*   kind "Other":     Err(WatchError::Other(Vec<Error>))                  *)
(*   kind "Timeout":   Err(WatchError::Timeout)                            *)
(*   kind "Results":   Vec<Result<Response<T>, Error>>   (broadcast)       *)
(***************************************************************************)
NoResult == [kind |-> "none", val |-> <<>>, tag |-> "none"]
Ok(response) == [kind |-> "Response", val |-> response, tag |-> "Ok"]
Err(errs) == [kind |-> "Errors", val |-> errs, tag |-> "Err"]

NoCall == [op |-> "none", args |-> <<>>]

\* the call does not return: panic!, or expect on a None or an Err
Panic(message) == [kind |-> "Panic", val |-> message, tag |-> "Panic"]

(***************************************************************************)
(* client.rs: first_ok                                                     *)
(***************************************************************************)
\* first_ok with `Ok(response) => return Ok(response)` lost: an Ok is kept only
\* when it comes from the last endpoint
first_ok_match_continue(o, i, errs, res) ==
    IF i < Len(o)
    THEN [errors |-> IF res.ok THEN errs ELSE Append(errs, res.err), done |-> FALSE,
          ret |-> NoResult, next |-> i + 1]
    ELSE IF res.ok
         THEN [errors |-> errs, done |-> TRUE, ret |-> Ok(res.val), next |-> i]
         ELSE [errors |-> Append(errs, res.err), done |-> TRUE,
               ret |-> Err(Append(errs, res.err)), next |-> i + 1]

\* first_ok with the error inserted at the front of the accumulator
first_ok_match_prepend(o, i, errs, res) ==
    IF res.ok
    THEN [errors |-> errs, done |-> TRUE, ret |-> Ok(res.val), next |-> i]
    ELSE IF i < Len(o)
         THEN [errors |-> <<res.err>> \o errs, done |-> FALSE, ret |-> NoResult,
               next |-> i + 1]
         ELSE [errors |-> <<res.err>> \o errs, done |-> TRUE,
               ret |-> Err(<<res.err>> \o errs), next |-> i + 1]

\* first_ok giving up on the first error the server itself answered with
first_ok_match_api_final(o, i, errs, res) ==
    IF res.ok
    THEN [errors |-> errs, done |-> TRUE, ret |-> Ok(res.val), next |-> i]
    ELSE IF i < Len(o) /\ res.err.kind # "Api"
         THEN [errors |-> Append(errs, res.err), done |-> FALSE, ret |-> NoResult,
               next |-> i + 1]
         ELSE [errors |-> Append(errs, res.err), done |-> TRUE,
               ret |-> Err(Append(errs, res.err)), next |-> i + 1]

\* first_ok returning the first error instead of going on to the next endpoint
first_ok_match_gives_up(o, i, errs, res) ==
    IF res.ok
    THEN [errors |-> errs, done |-> TRUE, ret |-> Ok(res.val), next |-> i]
    ELSE [errors |-> Append(errs, res.err), done |-> TRUE,
          ret |-> Err(Append(errs, res.err)), next |-> i + 1]

\* first_ok asking the same endpoint again after a transport error
first_ok_match_retries(o, i, errs, res) ==
    IF res.ok
    THEN [errors |-> errs, done |-> TRUE, ret |-> Ok(res.val), next |-> i]
    ELSE IF res.err.kind = "Http"
         THEN [errors |-> Append(errs, res.err), done |-> FALSE, ret |-> NoResult,
               next |-> i]
         ELSE IF i < Len(o)
              THEN [errors |-> Append(errs, res.err), done |-> FALSE, ret |-> NoResult,
                    next |-> i + 1]
              ELSE [errors |-> Append(errs, res.err), done |-> TRUE,
                    ret |-> Err(Append(errs, res.err)), next |-> i + 1]

\* first_ok going on to the next endpoint without keeping the error
first_ok_match_drops_errors(o, i, errs, res) ==
    IF res.ok
    THEN [errors |-> errs, done |-> TRUE, ret |-> Ok(res.val), next |-> i]
    ELSE IF i < Len(o)
         THEN [errors |-> errs, done |-> FALSE, ret |-> NoResult, next |-> i + 1]
         ELSE [errors |-> errs, done |-> TRUE, ret |-> Err(errs), next |-> i + 1]

\* `match result { Ok(response) => return Ok(response), Err(err) => errors.push(err) }`
\* and the loop's advance, at position i of the local order o.  done: the
\* function returns ret; otherwise the handler is invoked on o[next].
first_ok_match(o, i, errs, res) ==
    IF res.ok
    THEN [errors |-> errs, done |-> TRUE, ret |-> Ok(res.val), next |-> i]
    ELSE IF i < Len(o)
         THEN [errors |-> Append(errs, res.err), done |-> FALSE, ret |-> NoResult,
               next |-> i + 1]
         ELSE [errors |-> Append(errs, res.err), done |-> TRUE,
               ret |-> Err(Append(errs, res.err)), next |-> i + 1]

\* first_ok starting the requests to all the endpoints left at once
first_ok_polls_all(o, i) == SubSeq(o, i, Len(o))

\* the endpoints whose handler future first_ok polls when its loop is at
\* position i: `(handler)(&self, endpoint).await`
first_ok_polls(o, i) == <<o[i]>>

\* the requests put on the wire when the handler is invoked on each of es
wires(es, req) == [k \in 1..Len(es) |-> wire(es[k], req)]

\* watch handing on the error list of first_ok as it is, not wrapped
caller_maps_nothing(c, ret) ==
    IF ret.tag = "Err" /\ c.op = "request_first_ok"
    THEN [kind |-> "Error", val |-> ret.val[1], tag |-> "Err"]
    ELSE ret

\* request_first_ok surfacing the error collected last
caller_maps_last_error(c, ret) ==
    IF ret.tag = "Err" /\ c.op = "watch"
    THEN [kind |-> "Other", val |-> ret.val, tag |-> "Err"]
    ELSE IF ret.tag = "Err" /\ c.op = "request_first_ok"
         THEN [kind |-> "Error", val |-> ret.val[Len(ret.val)], tag |-> "Err"]
         ELSE ret

\* what the function that called first_ok makes of first_ok's result
\*   watch:            result.map_err(WatchError::Other)
\*   request_first_ok: Err(errors) => Err(errors.into_iter().next().expect(..)),
\*                     where expect panics when errors is empty
\*   raw_get, raw_set, raw_delete: the result as it is
caller_maps(c, ret) ==
    IF ret.tag = "Err" /\ c.op = "watch"
    THEN [kind |-> "Other", val |-> ret.val, tag |-> "Err"]
    ELSE IF ret.tag = "Err" /\ c.op = "request_first_ok"
         THEN IF ret.val = <<>>
              THEN Panic("invariant: errors array should never be empty.")
              ELSE [kind |-> "Error", val |-> ret.val[1], tag |-> "Err"]
         ELSE ret

\* first_ok from its entry to the first `.await`: shuffle, invoke the handler
\* on the first endpoint of the order
first_ok(c, req) ==
    /\ pc = "idle"
    /\ \E o \in shuffled_endpoints :
          /\ order' = o
          /\ inflight' = Range(first_ok_polls(o, 1))
          /\ sent' = wires(first_ok_polls(o, 1), req)
    /\ pc' = "first_ok"
    /\ call' = c
    /\ request' = req
    /\ idx' = 1
    /\ errors' = <<>>
    /\ UNCHANGED <<endpoints, results, lastReply, log, result, clock>>

\* a call that returns before first_ok is entered: `.map_err(|e| vec![e])?`
returns_early(c, e) ==
    /\ pc = "idle"
    /\ pc' = "done"
    /\ call' = c
    /\ result' = Err(<<e>>)
    /\ UNCHANGED <<endpoints, request, order, idx, errors, results, inflight, sent,
                   lastReply, log, clock>>

\* the request in flight completes: the handler returns, the loop matches on
\* its result and either returns or invokes the handler on the next endpoint
first_ok_resume ==
    /\ pc = "first_ok"
    /\ \E reply \in RepliesTo(request) :
          LET res == handler(reply, request)
              m == first_ok_match(order, idx, errors, res)
          IN  /\ lastReply' = reply
              /\ log' = Append(log, [res |-> res, endpoint |-> order[idx]])
              /\ errors' = m.errors
              /\ idx' = m.next
              /\ IF m.done
                 THEN /\ pc' = "done"
                      /\ result' = caller_maps(call, m.ret)
                      /\ inflight' = inflight \ {order[idx]}
                      /\ sent' = sent
                 ELSE /\ pc' = "first_ok"
                      /\ result' = result
                      /\ inflight' = (inflight \ {order[idx]})
                                         \cup Range(first_ok_polls(order, m.next))
                      /\ sent' = sent \o wires(first_ok_polls(order, m.next), request)
    /\ UNCHANGED <<endpoints, call, request, order, results, clock>>

(***************************************************************************)
(* kv.rs: raw_delete, raw_get, raw_set                                     *)
(***************************************************************************)
raw_delete(c, key, options) ==
    LET query_params == delete_into_query_params(options)
    IN  IF query_params.ok
        THEN first_ok(c, [body |-> None, api |-> "keys", parser |-> "etcd",
                          success |-> {OK}, field |-> None, path |-> key,
                          query |-> Some(query_params.val), method |-> "DELETE"])
        ELSE returns_early(c, query_params.err)

raw_get(c, key, options) ==
    LET query_params == get_into_query_params(options)
    IN  first_ok(c, [body |-> None, api |-> "keys", parser |-> "etcd",
                     success |-> {OK}, field |-> None,
                     path |-> key, query |-> Some(query_params), method |-> "GET"])

\* raw_set sending a PUT whatever create_in_order says
raw_set_always_put(c, key, options) ==
    LET request_body == into_request_body(options)
    IN  IF request_body.ok
        THEN first_ok(c, [body |-> Some(request_body.val), api |-> "keys",
                          parser |-> "etcd", success |-> {OK, CREATED}, field |-> None,
                          path |-> key, query |-> None, method |-> "PUT"])
        ELSE returns_early(c, request_body.err)

raw_set(c, key, options) ==
    LET create_in_order == options.create_in_order
        request_body == into_request_body(options)
    IN  IF request_body.ok
        THEN first_ok(c, [body |-> Some(request_body.val), api |-> "keys",
                          parser |-> "etcd", success |-> {OK, CREATED}, field |-> None,
                          path |-> key, query |-> None,
                          method |-> IF create_in_order THEN "POST" ELSE "PUT"])
        ELSE returns_early(c, request_body.err)

(***************************************************************************)
(* kv.rs: the public functions                                             *)
(***************************************************************************)
Call(op, args) == [op |-> op, args |-> args]

compare_and_delete ==
    \E key \in Keys, current_value \in CurrentValues,
       current_modified_index \in ModifiedIndexes :
        raw_delete(Call("compare_and_delete",
                        [key |-> key, current_value |-> current_value,
                         current_modified_index |-> current_modified_index]),
                   key,
                   [DefaultDeleteOptions EXCEPT
                      !.conditions = Some([value |-> current_value,
                                           modified_index |-> current_modified_index])])

compare_and_swap ==
    \E key \in Keys, value \in Values, ttl \in Ttls, current_value \in CurrentValues,
       current_modified_index \in ModifiedIndexes :
        raw_set(Call("compare_and_swap",
                     [value |-> value, ttl |-> ttl, key |-> key,
                      current_value |-> current_value,
                      current_modified_index |-> current_modified_index]),
                key,
                [DefaultSetOptions EXCEPT
                   !.conditions = Some([value |-> current_value,
                                        modified_index |-> current_modified_index]),
                   !.ttl = ttl,
                   !.value = Some(value)])

create ==
    \E key \in Keys, value \in Values, ttl \in Ttls :
        raw_set(Call("create", [value |-> value, ttl |-> ttl, key |-> key]), key,
                [DefaultSetOptions EXCEPT
                   !.prev_exist = Some(FALSE), !.ttl = ttl, !.value = Some(value)])

create_dir ==
    \E key \in Keys, ttl \in Ttls :
        raw_set(Call("create_dir", [ttl |-> ttl, key |-> key]), key,
                [DefaultSetOptions EXCEPT
                   !.dir = Some(TRUE), !.prev_exist = Some(FALSE), !.ttl = ttl])

create_in_order ==
    \E key \in Keys, value \in Values, ttl \in Ttls :
        raw_set(Call("create_in_order", [value |-> value, ttl |-> ttl, key |-> key]), key,
                [DefaultSetOptions EXCEPT
                   !.create_in_order = TRUE, !.ttl = ttl, !.value = Some(value)])

delete ==
    \E key \in Keys, recursive \in BOOLEAN :
        raw_delete(Call("delete", [recursive |-> recursive, key |-> key]), key,
                   [DefaultDeleteOptions EXCEPT !.recursive = Some(recursive)])

delete_dir ==
    \E key \in Keys :
        raw_delete(Call("delete_dir", [key |-> key]), key,
                   [DefaultDeleteOptions EXCEPT !.dir = Some(TRUE)])

get ==
    \E key \in Keys, recursive \in BOOLEAN, sort \in BOOLEAN,
       strong_consistency \in BOOLEAN :
        raw_get(Call("get", [strong_consistency |-> strong_consistency,
                             recursive |-> recursive, sort |-> sort, key |-> key]),
                key,
                [DefaultGetOptions EXCEPT
                   !.recursive = recursive, !.sort = Some(sort),
                   !.strong_consistency = strong_consistency])

set ==
    \E key \in Keys, value \in Values, ttl \in Ttls :
        raw_set(Call("set", [value |-> value, ttl |-> ttl, key |-> key]), key,
                [DefaultSetOptions EXCEPT !.ttl = ttl, !.value = Some(value)])

\* refresh leaving the ttl out of the options
refresh_without_ttl ==
    \E key \in Keys, ttl \in { unwrap(t) : t \in Ttls \ {None} } :
        raw_set(Call("refresh", [ttl |-> ttl, key |-> key]), key,
                [DefaultSetOptions EXCEPT !.refresh = TRUE, !.prev_exist = Some(TRUE)])

refresh ==
    \E key \in Keys, ttl \in { unwrap(t) : t \in Ttls \ {None} } :
        raw_set(Call("refresh", [ttl |-> ttl, key |-> key]), key,
                [DefaultSetOptions EXCEPT
                   !.ttl = Some(ttl), !.refresh = TRUE, !.prev_exist = Some(TRUE)])

set_dir ==
    \E key \in Keys, ttl \in Ttls :
        raw_set(Call("set_dir", [ttl |-> ttl, key |-> key]), key,
                [DefaultSetOptions EXCEPT !.dir = Some(TRUE), !.ttl = ttl])

update ==
    \E key \in Keys, value \in Values, ttl \in Ttls :
        raw_set(Call("update", [value |-> value, ttl |-> ttl, key |-> key]), key,
                [DefaultSetOptions EXCEPT
                   !.prev_exist = Some(TRUE), !.ttl = ttl, !.value = Some(value)])

update_dir ==
    \E key \in Keys, ttl \in Ttls :
        raw_set(Call("update_dir", [ttl |-> ttl, key |-> key]), key,
                [DefaultSetOptions EXCEPT
                   !.dir = Some(TRUE), !.prev_exist = Some(TRUE), !.ttl = ttl])

(***************************************************************************)
(* kv.rs: watch.  The future of raw_get runs only when it is awaited,      *)
(* directly or inside tokio's timeout, which polls it before the deadline. *)
(***************************************************************************)
watch ==
    \E key \in Keys, index \in WaitIndexes, recursive \in BOOLEAN, timeout \in Timeouts :
        raw_get(Call("watch", [recursive |-> recursive, key |-> key, index |-> index,
                               timeout |-> timeout]),
                key,
                [DefaultGetOptions EXCEPT
                   !.recursive = recursive, !.wait_index = index, !.wait = TRUE])

WatchTimeout == [kind |-> "Timeout", val |-> <<>>, tag |-> "Err"]

\* the deadline abandoning the awaiter only: the request stays on the wire
left_with_future(outstanding) == outstanding

\* what is left in flight once `timeout(duration, fut)` has resolved to
\* Err(_elapsed): the future of raw_get is dropped with it, and with that future
\* the request it was waiting for
dropped_with_future(outstanding) == {}

\* `Err(_elapsed) => Err(WatchError::Timeout)`: the deadline passes while the
\* call is suspended on a request
watch_elapsed ==
    /\ pc = "first_ok"
    /\ call.op = "watch"
    /\ is_some(call.args.timeout)
    /\ pc' = "done"
    /\ result' = WatchTimeout
    /\ inflight' = dropped_with_future(inflight)
    /\ UNCHANGED <<endpoints, call, request, order, idx, errors, results, sent,
                   lastReply, log, clock>>

(***************************************************************************)
(* client.rs: request_first_ok, request_on_each_endpoint, health, versions *)
(***************************************************************************)
\* Client::request: a GET whose only success status is 200
get_request(path) ==
    [body |-> None, api |-> "client", parser |-> "etcd", success |-> {OK}, field |-> None,
     path |-> path, query |-> None, method |-> "GET"]

request_first_ok ==
    \E path \in {"/v2/stats/leader"} :
        first_ok(Call("request_first_ok", [path |-> path]), get_request(path))

\* request_on_each_endpoint stopping at the first endpoint that fails
each_endpoint_push_until_err(eps, i, rs, res) ==
    [results |-> Append(rs, res), done |-> i >= Len(eps) \/ ~res.ok, next |-> i + 1]

\* the loop of request_on_each_endpoint at position i: push the result, go on to
\* the next configured endpoint or return the results
each_endpoint_push(eps, i, rs, res) ==
    [results |-> Append(rs, res), done |-> i >= Len(eps), next |-> i + 1]

\* request_on_each_endpoint from its entry to the first `.await`
request_on_each_endpoint(c, path) ==
    /\ pc = "idle"
    /\ pc' = "broadcast"
    /\ call' = c
    /\ request' = get_request(path)
    /\ idx' = 1
    /\ results' = <<>>
    /\ inflight' = {endpoints[1]}
    /\ sent' = <<wire(endpoints[1], get_request(path))>>
    /\ UNCHANGED <<endpoints, order, errors, lastReply, log, result, clock>>

health == request_on_each_endpoint(Call("health", <<>>), "health")

versions == request_on_each_endpoint(Call("versions", <<>>), "version")

\* the request in flight completes: its result is pushed, whatever it is
request_on_each_endpoint_resume ==
    /\ pc = "broadcast"
    /\ \E reply \in RepliesTo(request) :
          LET res == handler(reply, request)
              m == each_endpoint_push(endpoints, idx, results, res)
          IN  /\ lastReply' = reply
              /\ log' = Append(log, [res |-> res, endpoint |-> endpoints[idx]])
              /\ results' = m.results
              /\ idx' = m.next
              /\ IF m.done
                 THEN /\ pc' = "done"
                      /\ result' = [kind |-> "Results", val |-> m.results, tag |-> "Vec"]
                      /\ inflight' = inflight \ {endpoints[idx]}
                      /\ sent' = sent
                 ELSE /\ pc' = "broadcast"
                      /\ result' = result
                      /\ inflight' = (inflight \ {endpoints[idx]}) \cup {endpoints[m.next]}
                      /\ sent' = Append(sent, wire(endpoints[m.next], request))
    /\ UNCHANGED <<endpoints, call, request, order, errors, clock>>

(***************************************************************************)
(* The caller takes the result; the call's locals are gone and the client  *)
(* is ready for the next call.                                             *)
(***************************************************************************)
call_returns ==
    /\ pc = "done"
    /\ pc' = "idle"
    /\ call' = NoCall
    /\ request' = NoRequest
    /\ order' = <<>>
    /\ idx' = 0
    /\ errors' = <<>>
    /\ results' = <<>>
    /\ inflight' = {}
    /\ sent' = <<>>
    /\ lastReply' = NoReply
    /\ log' = <<>>
    /\ result' = NoResult
    /\ clock' = 0
    /\ UNCHANGED endpoints

Init ==
    /\ endpoints \in EndpointLists
    /\ pc = "idle"
    /\ call = NoCall
    /\ request = NoRequest
    /\ order = <<>>
    /\ idx = 0
    /\ errors = <<>>
    /\ results = <<>>
    /\ inflight = {}
    /\ sent = <<>>
    /\ lastReply = NoReply
    /\ log = <<>>
    /\ result = NoResult
    /\ clock = 0

Next ==
    \/ compare_and_delete
    \/ compare_and_swap
    \/ create
    \/ create_dir
    \/ create_in_order
    \/ delete
    \/ delete_dir
    \/ get
    \/ set
    \/ refresh
    \/ set_dir
    \/ update
    \/ update_dir
    \/ watch
    \/ watch_elapsed
    \/ request_first_ok
    \/ health
    \/ versions
    \/ first_ok_resume
    \/ request_on_each_endpoint_resume
    \/ call_returns

Spec == Init /\ [][Next]_vars

(***************************************************************************)
(* members.rs: the public functions.  serde_json::to_string of a struct is *)
(* the list of its fields, each a pair of the name it is renamed to and    *)
(* its value; it does not fail for these structs.                          *)
(***************************************************************************)
PeerUrlLists == {<<"http://10.0.0.10:2380">>}
MemberIds == {"8e9e05c52164694d"}

\* serde_json::to_string(&PeerUrls { peer_urls })
peer_urls_to_string(peer_urls) == <<<<"peerURLs", peer_urls>>>>

\* a request of the members or the auth API, parsed by parse_empty_response
\* or parse_auth_change_response (no predicate) unless said otherwise
admin_request(api, method, path, body, parser) ==
    [body |-> body, api |-> api, parser |-> parser, success |-> {}, field |-> None,
     path |-> path, query |-> None, method |-> method]

members_add ==
    \E peer_urls \in PeerUrlLists :
        first_ok(Call("members::add", [peer_urls |-> peer_urls]),
                 admin_request("members", "GET", "",
                               Some(peer_urls_to_string(peer_urls)), "empty"))

members_delete ==
    \E id \in MemberIds :
        first_ok(Call("members::delete", [id |-> id]),
                 admin_request("members", "DELETE", "/" \o id, None, "empty"))

members_list ==
    first_ok(Call("members::list", <<>>),
             [admin_request("members", "GET", "", None, "etcd") EXCEPT
                !.success = {OK}, !.field = Some("members")])

members_update ==
    \E id \in MemberIds, peer_urls \in PeerUrlLists :
        first_ok(Call("members::update", [peer_urls |-> peer_urls, id |-> id]),
                 admin_request("members", "PUT", "/" \o id,
                               Some(peer_urls_to_string(peer_urls)), "empty"))

(***************************************************************************)
(* auth.rs: the public functions.  The users and roles are those the       *)
(* constructors NewUser::new, UserUpdate::new, Role::new, RoleUpdate::new  *)
(* build: the optional fields are None and are skipped by the serializer.  *)
(***************************************************************************)
UserNames == {"root"}
Passwords == {"secret"}
RoleNames == {"rkt"}

\* serde_json::to_string(&NewUser { name, password, roles: None })
new_user_to_string(user) == <<<<"user", user.name>>, <<"password", user.password>>>>

\* serde_json::to_string(&UserUpdate { name, password: None, grants: None, .. })
user_update_to_string(user) == <<<<"user", user.name>>>>

\* serde_json::to_string(&Role { name, permissions: Permissions::new() })
role_to_string(role) == <<<<"role", role.name>>, <<"permissions", <<<<"kv", <<>>>>>>>>>>

\* serde_json::to_string(&RoleUpdate { name, grants: None, revocations: None })
role_update_to_string(role) == <<<<"role", role.name>>>>

create_role ==
    \E name \in RoleNames :
        first_ok(Call("auth::create_role", [role |-> [name |-> name]]),
                 [admin_request("auth", "PUT", "/roles/" \o name,
                                Some(role_to_string([name |-> name])), "auth")
                    EXCEPT !.success = {OK, CREATED}])

create_user ==
    \E name \in UserNames, password \in Passwords :
        first_ok(Call("auth::create_user", [user |-> [name |-> name, password |-> password]]),
                 [admin_request("auth", "PUT", "/users/" \o name,
                                Some(new_user_to_string([name |-> name,
                                                         password |-> password])), "auth")
                    EXCEPT !.success = {OK, CREATED}])

delete_role ==
    \E role_name \in RoleNames :
        first_ok(Call("auth::delete_role", [role_name |-> role_name]),
                 admin_request("auth", "DELETE", "/roles/" \o role_name, None, "empty"))

delete_user ==
    \E user_name \in UserNames :
        first_ok(Call("auth::delete_user", [user_name |-> user_name]),
                 admin_request("auth", "DELETE", "/users/" \o user_name, None, "empty"))

disable ==
    first_ok(Call("auth::disable", <<>>),
             admin_request("auth", "DELETE", "/enable", None, "auth_change"))

enable ==
    first_ok(Call("auth::enable", <<>>),
             admin_request("auth", "PUT", "/enable", None, "auth_change"))

get_role ==
    \E role_name \in RoleNames :
        first_ok(Call("auth::get_role", [role_name |-> role_name]),
                 [admin_request("auth", "GET", "/roles/" \o role_name, None, "auth")
                    EXCEPT !.success = {OK}])

get_roles ==
    first_ok(Call("auth::get_roles", <<>>),
             [admin_request("auth", "GET", "/roles", None, "auth") EXCEPT !.success = {OK}])

get_user ==
    \E user_name \in UserNames :
        first_ok(Call("auth::get_user", [user_name |-> user_name]),
                 [admin_request("auth", "GET", "/users/" \o user_name, None, "auth")
                    EXCEPT !.success = {OK}])

get_users ==
    first_ok(Call("auth::get_users", <<>>),
             [admin_request("auth", "GET", "/users", None, "auth") EXCEPT !.success = {OK}])

status ==
    first_ok(Call("auth::status", <<>>),
             [admin_request("auth", "GET", "/enable", None, "auth") EXCEPT
                !.success = {OK}, !.field = Some("enabled")])

update_role ==
    \E name \in RoleNames :
        first_ok(Call("auth::update_role", [role |-> [name |-> name]]),
                 [admin_request("auth", "PUT", "/roles/" \o name,
                                Some(role_update_to_string([name |-> name])), "auth")
                    EXCEPT !.success = {OK}])

update_user ==
    \E name \in UserNames :
        first_ok(Call("auth::update_user", [user |-> [name |-> name]]),
                 [admin_request("auth", "PUT", "/users/" \o name,
                                Some(user_update_to_string([name |-> name])), "auth")
                    EXCEPT !.success = {OK}])

AdminNext ==
    \/ members_add
    \/ members_delete
    \/ members_list
    \/ members_update
    \/ create_role
    \/ create_user
    \/ delete_role
    \/ delete_user
    \/ disable
    \/ enable
    \/ get_role
    \/ get_roles
    \/ get_user
    \/ get_users
    \/ status
    \/ update_role
    \/ update_user
    \/ first_ok_resume
    \/ call_returns

\* the calls of the members and the auth API, on the same client
AdminSpec == Init /\ [][AdminNext]_vars

(***************************************************************************)
(* The response parsers on their own: a response of any status, with any   *)
(* headers and any body, is handed to one of the parsers.  lastReply is    *)
(* the response, request the predicate the caller passes, log the result.  *)
(***************************************************************************)
HeaderValues == {<<"4", "2">>, <<"x">>, <<"0xFF">>}

HeaderMaps ==
    [cluster_id : {None, Some(<<"7", "e", "2">>), Some(<<"0xFF">>)},
     etcd_index : {None} \cup { Some(v) : v \in HeaderValues },
     raft_index : {None} \cup { Some(v) : v \in HeaderValues },
     raft_term : {None} \cup { Some(v) : v \in HeaderValues }]

Responses ==
    [kind : {"response"}, headers : HeaderMaps,
     status : StatusCodes \cup {NO_CONTENT, CONFLICT}, body : Bodies]

\* the predicates the callers pass: `s == OK` and `s == OK || s == CREATED`
Predicates == {{OK}, {OK, CREATED}}

ParseInit ==
    /\ endpoints = <<endpoint_url(1)>>
    /\ pc = "idle"
    /\ call = NoCall
    /\ request = NoRequest
    /\ order = <<>>
    /\ idx = 0
    /\ errors = <<>>
    /\ results = <<>>
    /\ inflight = {}
    /\ sent = <<>>
    /\ lastReply \in Responses
    /\ log = <<>>
    /\ result = NoResult
    /\ clock = 0

\* one handler's parser call on the response
parsed(req) ==
    /\ pc = "idle"
    /\ pc' = "done"
    /\ request' = req
    /\ log' = <<[res |-> parses(lastReply, req), endpoint |-> endpoints[1]]>>
    /\ UNCHANGED <<endpoints, call, order, idx, errors, results, inflight, sent,
                   lastReply, result, clock>>

parsed_etcd_response ==
    \E p \in Predicates : parsed([NoRequest EXCEPT !.parser = "etcd", !.success = p])

parsed_empty_response == parsed([NoRequest EXCEPT !.parser = "empty"])

parsed_auth_response ==
    \E p \in Predicates : parsed([NoRequest EXCEPT !.parser = "auth", !.success = p])

parsed_auth_change_response == parsed([NoRequest EXCEPT !.parser = "auth_change"])

ParseNext ==
    \/ parsed_etcd_response
    \/ parsed_empty_response
    \/ parsed_auth_response
    \/ parsed_auth_change_response

ParseSpec == ParseInit /\ [][ParseNext]_vars

(***************************************************************************)
(* Vocabulary of the properties                                            *)
(***************************************************************************)
\* the current call has entered first_ok
InFirstOk == pc \in {"first_ok", "done"} /\ order # <<>>

\* the current call has entered request_on_each_endpoint
InBroadcast == pc \in {"broadcast", "done"} /\ call.op \in {"health", "versions"}

KvOps ==
    {"compare_and_delete", "compare_and_swap", "create", "create_dir", "create_in_order",
     "delete", "delete_dir", "get", "set", "refresh", "set_dir", "update", "update_dir"}

Injective(s) == \A i, j \in 1..Len(s) : s[i] = s[j] => i = j

PermutationsOf(s) == { p \in [1..Len(s) -> Range(s)] : Injective(p) }

\* the endpoints of the requests put on the wire, in order
Contacted == [k \in 1..Len(sent) |-> sent[k].endpoint]

(***************************************************************************)
(* C1.  In first_ok, as soon as the handler returns Ok(v) for an endpoint   *)
(* the call returns Ok(v), and no endpoint later in the visit order is     *)
(* contacted: a handler result Ok(v) is the last entry of the call's log,   *)
(* the call is over with result Ok(v), and the requests sent are exactly   *)
(* those to the endpoints of the order up to that one.                     *)
(***************************************************************************)
C1_ReturnsFirstOk ==
    InFirstOk =>
        \A i \in 1..Len(log) :
            log[i].res.ok =>
                /\ pc = "done"
                /\ result = Ok(log[i].res.val)
                /\ i = Len(log)
                /\ Len(sent) = i
                /\ \A k \in 1..i : sent[k].endpoint = order[k]

\* the first endpoint visited answers Ok while another endpoint is configured
C1_Witness ==
    /\ InFirstOk
    /\ Len(endpoints) = 2
    /\ Len(log) = 1
    /\ log[1].res.ok
    /\ result.tag = "Ok"

(***************************************************************************)
(* C2.  Whenever first_ok returns Err(errors), errors has one error per    *)
(* configured endpoint and the i-th error is the one the handler returned  *)
(* for the i-th endpoint of the call's visit order.                        *)
(***************************************************************************)
C2_ErrPerEndpoint ==
    (InFirstOk /\ pc = "done" /\ result.kind \in {"Errors", "Other", "Error"}) =>
        /\ Len(errors) = Len(endpoints)
        /\ Len(log) = Len(endpoints)
        /\ \A i \in 1..Len(errors) :
              /\ log[i].endpoint = order[i]
              /\ sent[i].endpoint = order[i]
              /\ ~log[i].res.ok
              /\ errors[i] = log[i].res.err
        /\ result.kind \in {"Errors", "Other"} => result.val = errors

\* both endpoints fail with different errors, visited in the order opposite
\* to the configured one
C2_Witness ==
    /\ InFirstOk
    /\ pc = "done"
    /\ result.kind = "Errors"
    /\ Len(errors) = 2
    /\ order # endpoints
    /\ errors[1].kind = "Http"
    /\ errors[2].kind = "Api"

(***************************************************************************)
(* C3.  first_ok issues at most one request per endpoint per call: no      *)
(* endpoint appears twice among the requests of one call, so a failed      *)
(* endpoint is never tried again.                                          *)
(***************************************************************************)
C3_OneRequestPerEndpoint ==
    InFirstOk =>
        /\ Injective(Contacted)
        /\ Len(sent) <= Len(endpoints)
        /\ \A i \in 1..Len(log) :
              ~log[i].res.ok => \A k \in (i + 1)..Len(sent) : sent[k].endpoint # log[i].endpoint

\* one endpoint has failed and the request to the other one is on the wire
C3_Witness ==
    /\ pc = "first_ok"
    /\ Len(sent) = 2
    /\ Len(log) = 1
    /\ ~log[1].res.ok

(***************************************************************************)
(* C4.  Within one first_ok call at most one request is in flight, and a   *)
(* request is in flight only when every request sent before it has         *)
(* completed with an error.                                                *)
(***************************************************************************)
C4_OneInFlight ==
    /\ Cardinality(inflight) <= 1
    /\ InFirstOk =>
          /\ pc = "first_ok" =>
                /\ Len(sent) = Len(log) + 1
                /\ inflight = {sent[Len(sent)].endpoint}
          /\ \A k \in 2..Len(sent) :
                /\ Len(log) >= k - 1
                /\ ~log[k - 1].res.ok
                /\ log[k - 1].endpoint = sent[k - 1].endpoint

\* the second request is in flight, after the first has failed
C4_Witness ==
    /\ pc = "first_ok"
    /\ call.op \in KvOps
    /\ Len(sent) = 2
    /\ Cardinality(inflight) = 1
    /\ ~log[1].res.ok

(***************************************************************************)
(* C5.  Under first_ok an HTTP error status moves the call on to the next  *)
(* endpoint exactly as a transport error does; the error it leaves is the  *)
(* Api error with the server's message; and a key-value call every         *)
(* endpoint rejects has contacted every configured endpoint and returns    *)
(* a list in which every element is such an Api error.                     *)
(***************************************************************************)
HttpErrorStatus == lastReply.kind = "response" /\ lastReply.status \notin request.success

\* the call went from the request completed last to the next endpoint of the
\* order, or, with no endpoint left, returned the errors
MovedOn ==
    /\ ~log[Len(log)].res.ok
    /\ Len(log) < Len(endpoints) =>
          /\ Len(sent) = Len(log) + 1
          /\ sent[Len(sent)].endpoint = order[Len(log) + 1]
    /\ Len(log) = Len(endpoints) => pc = "done" /\ result.tag = "Err"

C5_ErrorStatusFailsOver ==
    InFirstOk =>
        /\ lastReply.kind = "transport" => MovedOn
        /\ HttpErrorStatus => MovedOn
        /\ (HttpErrorStatus /\ lastReply.body.kind = "api") =>
              /\ log[Len(log)].res.err = ErrorApi(lastReply.body.payload)
              /\ errors[Len(errors)] = ErrorApi(lastReply.body.payload)
        /\ (call.op \in KvOps /\ pc = "done" /\ Len(log) > 0
              /\ \A i \in 1..Len(log) : log[i].res.err.kind = "Api") =>
              /\ Range(Contacted) = Range(endpoints)
              /\ result.tag = "Err"
              /\ Len(result.val) = Len(endpoints)
              /\ \A i \in 1..Len(result.val) :
                    /\ result.val[i].kind = "Api"
                    /\ result.val[i] = log[i].res.err

\* create, rejected by both endpoints with "Key already exists"
C5_Witness ==
    /\ InFirstOk
    /\ call.op = "create"
    /\ pc = "done"
    /\ Len(endpoints) = 2
    /\ HttpErrorStatus
    /\ result.tag = "Err"
    /\ \A i \in 1..2 : result.val[i] = ErrorApi("Key already exists")

(***************************************************************************)
(* C6.  request_on_each_endpoint returns exactly one result per configured *)
(* endpoint, result i being what endpoint i of the configured list         *)
(* answered, and an error does not stop it: while it runs, the request to  *)
(* the next configured endpoint follows each completed one.                *)
(***************************************************************************)
C6_BroadcastAll ==
    InBroadcast =>
        /\ \A k \in 1..Len(sent) : sent[k].endpoint = endpoints[k]
        /\ Len(results) = Len(log)
        /\ \A i \in 1..Len(log) :
              /\ log[i].endpoint = endpoints[i]
              /\ results[i] = log[i].res
        /\ pc = "broadcast" => Len(sent) = Len(log) + 1
        /\ pc = "done" =>
              /\ result.kind = "Results"
              /\ result.val = results
              /\ Len(result.val) = Len(endpoints)
              /\ Len(sent) = Len(endpoints)

\* the first endpoint fails, the second is still asked and answers
C6_Witness ==
    /\ InBroadcast
    /\ pc = "done"
    /\ Len(endpoints) = 2
    /\ ~result.val[1].ok
    /\ result.val[2].ok

(***************************************************************************)
(* C7.  (Client::new's documentation.)  The client makes the call to each  *)
(* member in the order of the endpoints it was constructed with: the k-th  *)
(* request of a first_ok call goes to the k-th configured endpoint.        *)
(***************************************************************************)
C7_ConfiguredOrder ==
    InFirstOk => \A k \in 1..Len(sent) : sent[k].endpoint = endpoints[k]

(***************************************************************************)
(* C8.  The visit order of first_ok is drawn afresh for each call from a   *)
(* uniform shuffle of the configured list: the order is a permutation of   *)
(* the configured endpoints; whenever a call can start, it can start with  *)
(* any permutation; every permutation is the outcome of the same number of *)
(* sequences of draws; and the k-th request of the call goes to the k-th   *)
(* endpoint of the order, so a failure is followed by the next one.        *)
(***************************************************************************)
DrawsGiving(p) ==
    { c \in gen_indexes(Len(endpoints)) : shuffle(endpoints, Len(endpoints), c) = p }

C8_ShuffledOrder ==
    /\ InFirstOk =>
          /\ Len(order) = Len(endpoints)
          /\ Range(order) = Range(endpoints)
          /\ Injective(order)
          /\ \A k \in 1..Len(sent) : sent[k].endpoint = order[k]
          /\ pc = "first_ok" => Len(sent) = Len(log) + 1
    /\ pc = "idle" =>
          /\ \A p \in PermutationsOf(endpoints) : ENABLED (Next /\ order' = p)
          /\ \A p, q \in PermutationsOf(endpoints) :
                Cardinality(DrawsGiving(p)) = Cardinality(DrawsGiving(q))

\* the order is not the configured one, its first endpoint has failed and the
\* request to its second endpoint is on the wire
C8_Witness ==
    /\ pc = "first_ok"
    /\ Len(endpoints) = 2
    /\ order = <<endpoints[2], endpoints[1]>>
    /\ Len(log) = 1
    /\ Contacted = order

(***************************************************************************)
(* C9.  compare_and_delete and compare_and_swap called with neither the    *)
(* value nor the modified index return Err with the single element         *)
(* InvalidConditions, and no request is sent to any endpoint.              *)
(***************************************************************************)
C9_InvalidConditions ==
    (/\ call.op \in {"compare_and_delete", "compare_and_swap"}
     /\ is_none(call.args.current_value)
     /\ is_none(call.args.current_modified_index)) =>
        /\ pc = "done"
        /\ result = Err(<<ErrorInvalidConditions>>)
        /\ sent = <<>>
        /\ inflight = {}
        /\ log = <<>>
        /\ order = <<>>

C9_Witness ==
    /\ call.op = "compare_and_swap"
    /\ is_none(call.args.current_value)
    /\ is_none(call.args.current_modified_index)
    /\ result.tag = "Err"

(***************************************************************************)
(* C10.  A watch with a timeout whose deadline passes before a response    *)
(* returns Err(WatchError::Timeout) once: the step that produces Timeout   *)
(* is taken by a watch with a timeout suspended on a request, it leaves no *)
(* request in flight and sends none; and from a call that has returned     *)
(* Timeout the only step is the caller taking the result, so nothing is    *)
(* sent to any endpoint afterwards.                                        *)
(***************************************************************************)
C10_WatchTimeout ==
    [][ /\ (result' = WatchTimeout /\ result # WatchTimeout) =>
              /\ call.op = "watch"
              /\ is_some(call.args.timeout)
              /\ pc = "first_ok"
              /\ Cardinality(inflight) = 1
              /\ pc' = "done"
              /\ inflight' = {}
              /\ sent' = sent
              /\ log' = log
        /\ result = WatchTimeout =>
              /\ pc = "done"
              /\ pc' = "idle"
              /\ result' = NoResult
              /\ sent' = <<>>
              /\ inflight' = {} ]_vars

\* the deadline passed on the first request, with another endpoint left
C10_Witness ==
    /\ result = WatchTimeout
    /\ Len(endpoints) = 2
    /\ Len(sent) = 1
    /\ inflight = {}

(***************************************************************************)
(* C11.  A watch called without a timeout runs the dispatch core directly: *)
(* it is in first_ok from its first step, no deadline can end it and it    *)
(* never returns WatchError::Timeout.  When it returns, it returns the     *)
(* response of first_ok, or WatchError::Other holding the error of every   *)
(* endpoint in visit order: Http for a transport failure, and for an       *)
(* error status with an ApiError body, the server's "index cleared" one    *)
(* included, the Api error with that body.                                 *)
(***************************************************************************)
WatchOther(errs) == [kind |-> "Other", val |-> errs, tag |-> "Err"]

C11_WatchWithoutTimeout ==
    (call.op = "watch" /\ is_none(call.args.timeout)) =>
        /\ InFirstOk
        /\ ~ENABLED watch_elapsed
        /\ result # WatchTimeout
        /\ pc = "done" =>
              /\ log[Len(log)].res.ok => result = Ok(log[Len(log)].res.val)
              /\ ~log[Len(log)].res.ok =>
                    /\ result = WatchOther([i \in 1..Len(log) |-> log[i].res.err])
                    /\ Len(result.val) = Len(endpoints)
                    /\ lastReply.kind = "transport" =>
                          result.val[Len(result.val)] = ErrorHttp
                    /\ (HttpErrorStatus /\ lastReply.body.kind = "api") =>
                          result.val[Len(result.val)] = ErrorApi(lastReply.body.payload)

\* the first endpoint visited refuses the connection, the second answers that
\* the index asked for has been cleared
C11_Witness ==
    /\ call.op = "watch"
    /\ is_none(call.args.timeout)
    /\ is_some(call.args.index)
    /\ pc = "done"
    /\ lastReply.kind = "response"
    /\ result = WatchOther(<<ErrorHttp, ErrorApi(IndexCleared)>>)

(***************************************************************************)
(* C12.  parse_etcd_response classifies every response by these rules and  *)
(* no other: a body that cannot be read gives Http, whatever the status;   *)
(* a status the predicate accepts gives Ok with the decoded data and the   *)
(* ClusterInfo of the response's headers when the body decodes as T, and   *)
(* Serialization when it does not; a status the predicate rejects gives    *)
(* Api with the decoded ApiError when the body decodes as one, and         *)
(* Serialization when it does not.                                         *)
(***************************************************************************)
C12_ParseEtcdResponse ==
    (pc = "done" /\ request.parser = "etcd") =>
        LET response == lastReply
            res == log[1].res
            predicate == response.status \in request.success
            body == response.body
        IN  /\ body.kind = "unreadable" => res = HErr(ErrorHttp)
            /\ (predicate /\ body.kind = "data") =>
                  /\ res.ok
                  /\ res.val.data = body.payload
                  /\ res.val.cluster_info = cluster_info_from(response.headers)
                  /\ response.headers.etcd_index = Some(<<"4", "2">>) =>
                        res.val.cluster_info.etcd_index = Some(42)
                  /\ response.headers.cluster_id = Some(<<"7", "e", "2">>) =>
                        res.val.cluster_info.cluster_id = Some(<<"7", "e", "2">>)
            /\ (predicate /\ body.kind \in {"api", "garbage"}) =>
                  res = HErr(ErrorSerialization)
            /\ (~predicate /\ body.kind = "api") => res = HErr(ErrorApi(body.payload))
            /\ (~predicate /\ body.kind \in {"data", "garbage"}) =>
                  res = HErr(ErrorSerialization)

\* a 201 under the predicate `OK || CREATED`, with a body that decodes and the
\* index headers of a member
C12_Witness ==
    /\ pc = "done"
    /\ request.parser = "etcd"
    /\ request.success = {OK, CREATED}
    /\ lastReply.status = CREATED
    /\ lastReply.body = [kind |-> "data", payload |-> "bar"]
    /\ log[1].res.ok
    /\ log[1].res.val.cluster_info.etcd_index = Some(42)
    /\ log[1].res.val.cluster_info.raft_term = None

(***************************************************************************)
(* The encoder of SetOptions on its own: any SetOptions value is encoded.  *)
(* call holds the options, result what into_request_body returns.          *)
(***************************************************************************)
OptionBools == {None, Some(TRUE), Some(FALSE)}

Conditions ==
    {None} \cup
    { Some([value |-> v, modified_index |-> m]) : v \in CurrentValues, m \in ModifiedIndexes }

AllSetOptions ==
    [value : {None} \cup { Some(v) : v \in Values }, conditions : Conditions, dir : OptionBools,
     create_in_order : BOOLEAN, prev_exist : OptionBools, ttl : Ttls,
     refresh : BOOLEAN]

EncodeInit ==
    /\ endpoints = <<endpoint_url(1)>>
    /\ pc = "idle"
    /\ call \in { Call("into_request_body", [options |-> o]) : o \in AllSetOptions }
    /\ request = NoRequest
    /\ order = <<>>
    /\ idx = 0
    /\ errors = <<>>
    /\ results = <<>>
    /\ inflight = {}
    /\ sent = <<>>
    /\ lastReply = NoReply
    /\ log = <<>>
    /\ result = NoResult
    /\ clock = 0

\* `let request_body = options.into_request_body()`: Ok(body) or Err(error)
encoded ==
    /\ pc = "idle"
    /\ pc' = "done"
    /\ LET request_body == into_request_body(call.args.options)
       IN  result' = IF request_body.ok
                     THEN [kind |-> "Body", val |-> request_body.val, tag |-> "Ok"]
                     ELSE [kind |-> "Error", val |-> request_body.err, tag |-> "Err"]
    /\ UNCHANGED <<endpoints, call, request, order, idx, errors, results, inflight, sent,
                   lastReply, log, clock>>

EncodeNext == encoded

EncodeSpec == EncodeInit /\ [][EncodeNext]_vars

(***************************************************************************)
(* Vocabulary of the members and auth properties                           *)
(***************************************************************************)
\* the operations that expect an empty answer: they end with parse_empty_response
EmptyOps ==
    {"members::add", "members::update", "members::delete",
     "auth::delete_user", "auth::delete_role"}

\* the operations whose answer is the status alone
AuthChangeOps == {"auth::enable", "auth::disable"}

\* the auth operations that decode a JSON body
AuthJsonOps ==
    {"auth::get_user", "auth::get_role", "auth::create_user", "auth::create_role",
     "auth::update_user", "auth::update_role", "auth::status",
     "auth::get_users", "auth::get_roles"}

\* a response has just been handled by the handler of the current call
Answered == InFirstOk /\ Len(log) > 0 /\ lastReply.kind = "response"

LastRes == log[Len(log)].res

\* the outcome of decoding the last response's body as an ApiError
ApiErrorDecoded ==
    IF lastReply.body.kind = "api"
    THEN HErr(ErrorApi(lastReply.body.payload))
    ELSE HErr(ErrorSerialization)

(***************************************************************************)
(* C13, as stated.  For members add, update, delete and auth delete_user,  *)
(* delete_role the handler returns Ok with unit data if and only if the    *)
(* status is 204, and for every other status Api when the body decodes as  *)
(* an ApiError and Serialization otherwise.                                *)
(***************************************************************************)
C13_EmptyResponse ==
    (Answered /\ call.op \in EmptyOps) =>
        /\ LastRes.ok <=> lastReply.status = NO_CONTENT
        /\ LastRes.ok => LastRes.val.data = "()"
        /\ lastReply.status # NO_CONTENT => LastRes = ApiErrorDecoded

(***************************************************************************)
(* C13, amended.  The body is read before the status is looked at: when    *)
(* reading it fails the handler returns Http, whatever the status.  When   *)
(* the body is read, the handler returns Ok with unit data if and only if  *)
(* the status is 204, and for every other status, 200 and 201 included,    *)
(* Api when the body decodes as an ApiError and Serialization otherwise.   *)
(***************************************************************************)
C13_EmptyResponseOnceRead ==
    (Answered /\ call.op \in EmptyOps) =>
        /\ request.parser = "empty"
        /\ lastReply.body.kind = "unreadable" => LastRes = HErr(ErrorHttp)
        /\ lastReply.body.kind # "unreadable" =>
              /\ LastRes.ok <=> lastReply.status = NO_CONTENT
              /\ LastRes.ok =>
                    /\ LastRes.val.data = "()"
                    /\ LastRes.val.cluster_info = cluster_info_from(lastReply.headers)
              /\ lastReply.status # NO_CONTENT => LastRes = ApiErrorDecoded

\* members::update answered 200 with a JSON document: not a success
C13_Witness ==
    /\ Answered
    /\ call.op = "members::update"
    /\ lastReply.status = OK
    /\ lastReply.body.kind = "data"
    /\ LastRes = HErr(ErrorSerialization)

(***************************************************************************)
(* C14.  Error::UnexpectedStatus is returned only by the operations that   *)
(* expect no JSON body, and an operation that decodes a JSON body handles  *)
(* a status outside its success statuses by decoding the body as an        *)
(* ApiError: the handler returns Api when that decodes, Serialization when *)
(* it does not.                                                            *)
(***************************************************************************)
C14_UnexpectedStatusOnlyWithoutBody ==
    InFirstOk =>
        /\ (\E i \in 1..Len(log) : log[i].res.err.kind = "UnexpectedStatus") =>
              call.op \in AuthChangeOps \cup EmptyOps
        /\ (/\ Answered
            /\ call.op \in AuthJsonOps \cup {"members::list"}
            /\ lastReply.status \notin request.success
            /\ lastReply.body.kind # "unreadable") => LastRes = ApiErrorDecoded

(***************************************************************************)
(* C15.  auth::enable and auth::disable map the status of the answer: 200  *)
(* gives Ok(Changed), 409 gives Ok(Unchanged), any other status an error.  *)
(* A 200 and a 409 both end the call with that value, so an enable         *)
(* answered 200 and the next one answered 409 return Changed and then      *)
(* Unchanged, and after a 409 no request goes to another endpoint.         *)
(***************************************************************************)
C15_AuthChange ==
    (Answered /\ call.op \in AuthChangeOps) =>
        /\ lastReply.status = OK =>
              /\ LastRes.ok
              /\ LastRes.val.data = "Changed"
        /\ lastReply.status = CONFLICT =>
              /\ LastRes.ok
              /\ LastRes.val.data = "Unchanged"
        /\ lastReply.status \in {OK, CONFLICT} =>
              /\ pc = "done"
              /\ result = Ok(LastRes.val)
              /\ Len(sent) = Len(log)
              /\ inflight = {}
        /\ lastReply.status \notin {OK, CONFLICT} =>
              /\ ~LastRes.ok
              /\ LastRes.err = ErrorUnexpectedStatus(lastReply.status)

\* enable answered 409 by the first endpoint visited, another one being configured
C15_Witness ==
    /\ Answered
    /\ call.op = "auth::enable"
    /\ Len(endpoints) = 2
    /\ Len(sent) = 1
    /\ lastReply.status = CONFLICT
    /\ result.tag = "Ok"
    /\ result.val.data = "Unchanged"

(***************************************************************************)
(* C18.  members::add sends, on every attempt, a POST to                   *)
(* {endpoint}v2/members whose body is the JSON object with the one field   *)
(* peerURLs, the list of peer URLs it was given.                           *)
(***************************************************************************)
C18_AddPosts ==
    (InFirstOk /\ call.op = "members::add") =>
        \A k \in 1..Len(sent) :
            /\ sent[k].method = "POST"
            /\ sent[k].url = [endpoint |-> order[k], path |-> "v2/members", query |-> None]
            /\ sent[k].body = Some(<<<<"peerURLs", call.args.peer_urls>>>>)

(***************************************************************************)
(* C16, as stated.  With two endpoints configured that both refuse the     *)
(* connection, any call returns Err(errors) where errors has two elements, *)
(* each an Http error.                                                     *)
(***************************************************************************)
\* every request the current call has made failed with an Http error, as it does
\* when the endpoint refuses the connection
AllRefused == \A i \in 1..Len(log) : log[i].res = HErr(ErrorHttp)

C16_AnyCallTwoHttpErrors ==
    (Len(endpoints) = 2 /\ pc = "done" /\ AllRefused) =>
        result = Err(<<ErrorHttp, ErrorHttp>>)

(***************************************************************************)
(* C16, amended.  With two endpoints configured that both refuse the       *)
(* connection, a call that goes through first_ok and sends a request       *)
(* returns Err(errors) where errors has two elements, each an Http error;  *)
(* watch returns that list inside WatchError::Other, or Timeout when its   *)
(* deadline passes first; a call that fails before first_ok returns the    *)
(* one error InvalidConditions; request_first_ok returns one Http error,   *)
(* not a list; health and versions return two results, each Err(Http).     *)
(***************************************************************************)
C16_AllEndpointsDown ==
    (Len(endpoints) = 2 /\ pc = "done" /\ AllRefused) =>
        CASE call.op = "watch" ->
                 \/ result = WatchOther(<<ErrorHttp, ErrorHttp>>)
                 \/ is_some(call.args.timeout) /\ result = WatchTimeout
          [] call.op = "request_first_ok" ->
                 result = [kind |-> "Error", val |-> ErrorHttp, tag |-> "Err"]
          [] call.op \in {"health", "versions"} ->
                 result = [kind |-> "Results", val |-> <<HErr(ErrorHttp), HErr(ErrorHttp)>>,
                           tag |-> "Vec"]
          [] OTHER ->
                 IF sent = <<>>
                 THEN result = Err(<<ErrorInvalidConditions>>)
                 ELSE /\ result = Err(<<ErrorHttp, ErrorHttp>>)
                      /\ Range(Contacted) = Range(endpoints)

\* set, refused by both endpoints
C16_Witness ==
    /\ Len(endpoints) = 2
    /\ pc = "done"
    /\ call.op = "set"
    /\ AllRefused
    /\ lastReply = TransportError
    /\ Len(log) = 2
    /\ result = Err(<<ErrorHttp, ErrorHttp>>)

(***************************************************************************)
(* C17.  request_first_ok returns the first successful response; when      *)
(* every endpoint fails it returns one error, the one collected first,     *)
(* which is the error of the endpoint visited first in the call's shuffled *)
(* order, whichever place that endpoint has in the configured list.        *)
(***************************************************************************)
C17_RequestFirstOk ==
    (call.op = "request_first_ok" /\ pc = "done") =>
        /\ InFirstOk
        /\ \A i \in 1..(Len(log) - 1) : ~log[i].res.ok
        /\ LastRes.ok => result = Ok(LastRes.val)
        /\ ~LastRes.ok =>
              /\ Len(log) = Len(endpoints)
              /\ log[1].endpoint = order[1]
              /\ sent[1].endpoint = order[1]
              /\ result = [kind |-> "Error", val |-> log[1].res.err, tag |-> "Err"]

\* the endpoint configured second is visited first and answers with an Api
\* error, the other one refuses the connection
C17_Witness ==
    /\ call.op = "request_first_ok"
    /\ pc = "done"
    /\ Len(endpoints) = 2
    /\ log[1].endpoint = endpoints[2]
    /\ log[1].res.err.kind = "Api"
    /\ log[2].res.err.kind = "Http"
    /\ result.kind = "Error"
    /\ result.val.kind = "Api"

(***************************************************************************)
(* C19.  The key-value operations follow the method and success table:     *)
(* get sends GET and succeeds on 200 only; delete, delete_dir and          *)
(* compare_and_delete send DELETE and succeed on 200 only; create_in_order *)
(* sends POST, and is the only one to, and the other eight send PUT; the   *)
(* last nine succeed on 200 and on 201.  A status outside the success set  *)
(* of the operation leaves an error for that endpoint.                     *)
(***************************************************************************)
MethodOf(op) ==
    CASE op = "get" -> "GET"
      [] op \in {"delete", "delete_dir", "compare_and_delete"} -> "DELETE"
      [] op = "create_in_order" -> "POST"
      [] op \in {"set", "create", "update", "refresh", "create_dir", "set_dir",
                 "update_dir", "compare_and_swap"} -> "PUT"

SuccessOf(op) ==
    IF op \in {"get", "delete", "delete_dir", "compare_and_delete"}
    THEN {200}
    ELSE {200, 201}

C19_MethodTable ==
    (InFirstOk /\ call.op \in KvOps) =>
        /\ \A k \in 1..Len(sent) :
              /\ sent[k].method = MethodOf(call.op)
              /\ sent[k].url.path = "v2/keys" \o call.args.key
        /\ (Len(log) > 0 /\ lastReply.kind = "response") =>
              /\ LastRes.ok => lastReply.status \in SuccessOf(call.op)
              /\ (lastReply.status \in SuccessOf(call.op) /\ lastReply.body.kind = "data")
                    => LastRes.ok
              /\ lastReply.status \notin SuccessOf(call.op) =>
                    /\ ~LastRes.ok
                    /\ errors # <<>>
                    /\ errors[Len(errors)] = LastRes.err

\* create_in_order answered 201 by the second endpoint it tries
C19_Witness ==
    /\ InFirstOk
    /\ call.op = "create_in_order"
    /\ Len(sent) = 2
    /\ sent[2].method = "POST"
    /\ lastReply.status = 201
    /\ result.tag = "Ok"

(***************************************************************************)
(* C20.  The body encoded from SetOptions with refresh = true, prev_exist  *)
(* = None and ttl = Some(t) holds prevExist=true, refresh=true and ttl=t.  *)
(* In general the body holds prevExist once, with the value of prev_exist, *)
(* when prev_exist is set; prevExist=true when it is not set and refresh   *)
(* is; and no prevExist otherwise.  (An encoding that is refused for its   *)
(* empty conditions has no body.)                                          *)
(***************************************************************************)
\* the values the pairs named name have in a form body
ValuesOf(body, name) == { body[i][2] : i \in { j \in 1..Len(body) : body[j][1] = name } }

\* the number of pairs named name
CountOf(body, name) == Cardinality({ j \in 1..Len(body) : body[j][1] = name })

C20_PrevExistOfRefresh ==
    (pc = "done" /\ call.op = "into_request_body" /\ result.tag = "Ok") =>
        LET o == call.args.options
            body == result.val
        IN  /\ (o.refresh /\ is_none(o.prev_exist) /\ is_some(o.ttl)) =>
                  /\ <<"prevExist", "true">> \in Range(body)
                  /\ <<"refresh", "true">> \in Range(body)
                  /\ o.ttl = Some(60) => <<"ttl", "60">> \in Range(body)
                  /\ CountOf(body, "ttl") = 1
            /\ o.prev_exist = Some(TRUE) => ValuesOf(body, "prevExist") = {"true"}
            /\ o.prev_exist = Some(FALSE) => ValuesOf(body, "prevExist") = {"false"}
            /\ (is_none(o.prev_exist) /\ o.refresh) => ValuesOf(body, "prevExist") = {"true"}
            /\ (is_none(o.prev_exist) /\ ~o.refresh) => ValuesOf(body, "prevExist") = {}
            /\ CountOf(body, "prevExist") <= 1
            /\ o.refresh <=> <<"refresh", "true">> \in Range(body)

\* refresh with a ttl of 60 and no prev_exist
C20_Witness ==
    /\ pc = "done"
    /\ call.op = "into_request_body"
    /\ call.args.options.refresh
    /\ is_none(call.args.options.prev_exist)
    /\ call.args.options.ttl = Some(60)
    /\ is_none(call.args.options.value)
    /\ is_none(call.args.options.dir)
    /\ is_none(call.args.options.conditions)
    /\ result.val = <<<<"ttl", "60">>, <<"prevExist", "true">>, <<"refresh", "true">>>>

(***************************************************************************)
(* C21.  The SetOptions a call is made with are consistent where refresh   *)
(* is concerned: refresh is set by kv::refresh and by no other operation,  *)
(* and every request encoded from options with refresh = true, which is    *)
(* every request whose body holds refresh=true, holds prevExist=true and   *)
(* no other prevExist, and holds the ttl the caller gave, once.            *)
(***************************************************************************)
\* the form body of a request on the wire; a request without a body has no pair
FormOf(r) == IF is_some(r.body) THEN unwrap(r.body) ELSE <<>>

C21_RefreshConsistent ==
    (InFirstOk /\ call.op \in KvOps) =>
        \A k \in 1..Len(sent) :
            LET body == FormOf(sent[k])
            IN  /\ call.op = "refresh" <=> <<"refresh", "true">> \in Range(body)
                /\ <<"refresh", "true">> \in Range(body) =>
                      /\ ValuesOf(body, "prevExist") = {"true"}
                      /\ CountOf(body, "prevExist") = 1
                      /\ ValuesOf(body, "ttl") = {to_string(call.args.ttl)}
                      /\ CountOf(body, "ttl") = 1

\* a refresh with a ttl of 60 on the wire
C21_Witness ==
    /\ InFirstOk
    /\ call.op = "refresh"
    /\ call.args.ttl = 60
    /\ Len(sent) = 1
    /\ FormOf(sent[1]) = <<<<"ttl", "60">>, <<"prevExist", "true">>, <<"refresh", "true">>>>

(***************************************************************************)
(* C22.  (GetOptions::strong_consistency's documentation.)  A get called   *)
(* with strong_consistency = true asks the serving node to synchronize     *)
(* with the quorum: the query string of each request it sends differs from *)
(* the one the same get sends with strong_consistency = false.             *)
(***************************************************************************)
\* the query string of the get a caller makes with the arguments args, but with
\* strong_consistency = false
WeakQueryOf(args) ==
    get_into_query_params([DefaultGetOptions EXCEPT
                             !.recursive = args.recursive, !.sort = Some(args.sort),
                             !.strong_consistency = FALSE])

C22_StrongConsistencyOnWire ==
    (InFirstOk /\ call.op = "get" /\ call.args.strong_consistency) =>
        \A k \in 1..Len(sent) : sent[k].url.query # Some(WeakQueryOf(call.args))

(***************************************************************************)
(* C23.  Decoding the ClusterInfo never fails a call.  Whatever the four   *)
(* headers hold, a parser returns what it returns for the same response    *)
(* without any of them: the same Ok or Err, the same error, the same data. *)
(* In an Ok response each field is decoded from its own header alone: a    *)
(* header that is missing, is not UTF-8 or, for the three numbers, is not  *)
(* a number gives None in its field, a header that decodes gives its value *)
(* there, whatever the other three headers hold.                           *)
(***************************************************************************)
\* what the text header h is expected to decode to
TextExpected(h) == IF h = Some(<<"7", "e", "2">>) THEN Some(<<"7", "e", "2">>) ELSE None

\* what the numeric header h is expected to decode to
NumberExpected(h) == IF h = Some(<<"4", "2">>) THEN Some(42) ELSE None

C23_ClusterInfoTolerant ==
    pc = "done" =>
        LET res == log[1].res
            bare == parses([lastReply EXCEPT !.headers = NoHeaders], request)
        IN  /\ res.ok = bare.ok
            /\ res.err = bare.err
            /\ res.val.data = bare.val.data
            /\ res.ok =>
                  /\ res.val.cluster_info.cluster_id = TextExpected(lastReply.headers.cluster_id)
                  /\ res.val.cluster_info.etcd_index =
                         NumberExpected(lastReply.headers.etcd_index)
                  /\ res.val.cluster_info.raft_index =
                         NumberExpected(lastReply.headers.raft_index)
                  /\ res.val.cluster_info.raft_term =
                         NumberExpected(lastReply.headers.raft_term)

\* an Ok response whose cluster id is not UTF-8, whose etcd index is not a
\* number and whose raft term is missing: the raft index is still decoded
C23_Witness ==
    /\ pc = "done"
    /\ log[1].res.ok
    /\ lastReply.headers.cluster_id = Some(<<"0xFF">>)
    /\ lastReply.headers.etcd_index = Some(<<"x">>)
    /\ lastReply.headers.raft_index = Some(<<"4", "2">>)
    /\ lastReply.headers.raft_term = None
    /\ log[1].res.val.cluster_info =
           [cluster_id |-> None, etcd_index |-> None, raft_index |-> Some(42),
            raft_term |-> None]

(***************************************************************************)
(* client.rs: ClientBuilder::new, ClientBuilder::build and Client::new.    *)
(* An endpoint the caller passes is a string, here the sequence of its     *)
(* characters.  `e.parse()` is the FromStr of http::Uri, which takes the   *)
(* four forms of a request target: "*", a path ("/v2"), an authority       *)
(* ("a:12") and an absolute URI ("http://a/").                             *)
(***************************************************************************)
AlphaNum == {"a", "h", "p", "s", "t", "v", "1", "2"}
SchemeChars == AlphaNum \cup {"+", "-", "."}
UriChars == SchemeChars \cup {":", "/", "?", "*"}

\* the least position from `from` on whose character is not in chars; Len(s) + 1
\* when there is none
RECURSIVE span(_, _, _)
span(s, from, chars) ==
    IF from > Len(s) \/ s[from] \notin chars THEN from ELSE span(s, from + 1, chars)

InvalidUri(reason) == [kind |-> "InvalidUri", message |-> reason]

\* Scheme2::parse: the number of characters of the scheme when s starts with
\* one followed by "://", None otherwise
scheme_parse(s) ==
    LET i == span(s, 1, SchemeChars)
    IN  IF /\ Len(s) > 3
           /\ i + 2 <= Len(s)
           /\ s[i] = ":"
           /\ s[i + 1] = "/"
           /\ s[i + 2] = "/"
        THEN Some(i - 1)
        ELSE None

\* Authority::parse: Ok(the number of characters up to the first '/' or '?'),
\* Err for a character no URI holds and for a second colon
authority_parse(s) ==
    LET authority_end == span(s, 1, UriChars \ {"/", "?"}) - 1
        colons == { k \in 1..authority_end : s[k] = ":" }
    IN  IF authority_end < Len(s) /\ s[authority_end + 1] \notin {"/", "?"}
        THEN EncErr(InvalidUri("InvalidUriChar"))
        ELSE IF Cardinality(colons) > 1
             THEN EncErr(InvalidUri("InvalidAuthority"))
             ELSE EncOk(authority_end)

\* PathAndQuery::from_shared
path_and_query_from_shared(s) ==
    IF span(s, 1, UriChars) <= Len(s)
    THEN EncErr(InvalidUri("InvalidUriChar"))
    ELSE EncOk(s)

Uri(scheme, authority, path_and_query) ==
    [scheme |-> scheme, authority |-> authority, path_and_query |-> path_and_query]

\* uri::parse_full: s does not start with '/'
parse_full(s) ==
    LET scheme == scheme_parse(s)
        rest == IF is_some(scheme) THEN SubSeq(s, unwrap(scheme) + 4, Len(s)) ELSE s
        authority_end == authority_parse(rest)
        path_and_query ==
            path_and_query_from_shared(SubSeq(rest, authority_end.val + 1, Len(rest)))
    IN  IF ~authority_end.ok
        THEN EncErr(authority_end.err)
        ELSE IF is_none(scheme)
             THEN IF authority_end.val # Len(rest)
                  THEN EncErr(InvalidUri("InvalidFormat"))
                  ELSE EncOk(Uri(None, Some(rest), None))
             ELSE IF authority_end.val = 0
                  THEN EncErr(InvalidUri("InvalidFormat"))
                  ELSE IF ~path_and_query.ok
                       THEN EncErr(path_and_query.err)
                       ELSE EncOk(Uri(Some(SubSeq(s, 1, unwrap(scheme))),
                                      Some(SubSeq(rest, 1, authority_end.val)),
                                      Some(path_and_query.val)))

\* <Uri as FromStr>::from_str
from_str(s) ==
    IF Len(s) = 0
    THEN EncErr(InvalidUri("Empty"))
    ELSE IF s[1] = "/" \/ s = <<"*">>
         THEN IF path_and_query_from_shared(s).ok
              THEN EncOk(Uri(None, None, Some(s)))
              ELSE EncErr(path_and_query_from_shared(s).err)
         ELSE parse_full(s)

\* the endpoint strings callers pass: "http://a/", "https://a:1", "a:12", "/v2",
\* "", "a b", "http://" and "a/v2"
EndpointStrings ==
    { <<"h", "t", "t", "p", ":", "/", "/", "a", "/">>,
      <<"h", "t", "t", "p", "s", ":", "/", "/", "a", ":", "1">>,
      <<"a", ":", "1", "2">>,
      <<"/", "v", "2">>,
      <<>>,
      <<"a", " ", "b">>,
      <<"h", "t", "t", "p", ":", "/", "/">>,
      <<"a", "/", "v", "2">> }

\* the slices of endpoint strings callers pass, the empty one included
EndpointArguments ==
    UNION { [1..n -> EndpointStrings] : n \in 0..MaxEndpoints }

\* ClientBuilder::new from its entry to the panic or to `Self { endpoints, .. }`;
\* to is where the caller stands with the value returned
builder_new(c, to) ==
    /\ pc = "idle"
    /\ call' = c
    /\ IF Len(c.args.endpoints) = 0
       THEN /\ pc' = "panicked"
            /\ result' = Panic("invariant: no endpoints provided")
            /\ endpoints' = endpoints
       ELSE IF \E i \in 1..Len(c.args.endpoints) : ~from_str(c.args.endpoints[i]).ok
            THEN /\ pc' = "panicked"
                 /\ result' = Panic("invariant: could not parse endpoint")
                 /\ endpoints' = endpoints
            ELSE /\ pc' = to
                 /\ result' = result
                 /\ endpoints' = [i \in 1..Len(c.args.endpoints) |->
                                      from_str(c.args.endpoints[i]).val]
    /\ UNCHANGED <<request, order, idx, errors, results, inflight, sent, lastReply, log,
                   clock>>

client_builder_new ==
    \E es \in EndpointArguments :
        builder_new(Call("ClientBuilder::new", [endpoints |-> es]), "builder")

\* ClientBuilder::build: `Client { endpoints: Arc::new(self.endpoints), http_client }`
client_builder_build ==
    /\ pc = "builder"
    /\ pc' = "built"
    /\ UNCHANGED <<endpoints, call, request, order, idx, errors, results, inflight, sent,
                   lastReply, log, result, clock>>

\* Client::new: `ClientBuilder::new(endpoints).build()`
client_new ==
    \E es \in EndpointArguments :
        builder_new(Call("Client::new", [endpoints |-> es]), "built")

BuildInit ==
    /\ endpoints = <<>>
    /\ pc = "idle"
    /\ call = NoCall
    /\ request = NoRequest
    /\ order = <<>>
    /\ idx = 0
    /\ errors = <<>>
    /\ results = <<>>
    /\ inflight = {}
    /\ sent = <<>>
    /\ lastReply = NoReply
    /\ log = <<>>
    /\ result = NoResult
    /\ clock = 0

BuildNext ==
    \/ client_builder_new
    \/ client_builder_build
    \/ client_new

BuildSpec == BuildInit /\ [][BuildNext]_vars

(***************************************************************************)
(* C24.  ClientBuilder::new and Client::new panic when the endpoint list   *)
(* is empty or an endpoint fails to parse, so every Client that exists has *)
(* a non-empty endpoint list, and every element of it is an absolute URL:  *)
(* it has a scheme and an authority.                                       *)
(***************************************************************************)
C24_EndpointsAbsolute ==
    /\ (pc # "idle" /\ (call.args.endpoints = <<>>
                          \/ \E i \in 1..Len(call.args.endpoints) :
                                ~from_str(call.args.endpoints[i]).ok)) =>
          pc = "panicked"
    /\ pc = "built" =>
          /\ Len(endpoints) > 0
          /\ \A i \in 1..Len(endpoints) :
                /\ is_some(endpoints[i].scheme)
                /\ is_some(endpoints[i].authority)

(***************************************************************************)
(* Calls that share one Client.  Two tasks hold the same Client (a         *)
(* reference to it, or a clone, which shares the Arc of the endpoint       *)
(* list) and make calls of their own, one after the other or interleaved   *)
(* at the suspension points.  endpoints is the one list both read; every   *)
(* other variable is the locals of the calls, one value per task.          *)
(***************************************************************************)
Callers == {"a", "b"}

\* the outcomes of a request here: no connection, a 200 with a body that decodes,
\* a 200 with a body that does not
SharedReplies ==
    { r \in Replies :
         \/ r = TransportError
         \/ /\ r.kind = "response"
            /\ r.status = OK
            /\ r.body \in {[kind |-> "data", payload |-> "bar"],
                           [kind |-> "garbage", payload |-> ""]} }

\* shuffled_endpoints shuffling the client's own list
shuffled_in_place(o) == o

\* self.endpoints once shuffled_endpoints has returned the order o: the shuffle
\* works on the local Vec of references `self.endpoints.iter().collect()`
shallow_copy_shuffled(o) == endpoints

SharedInit ==
    /\ endpoints \in EndpointLists
    /\ pc = [t \in Callers |-> "idle"]
    /\ call = [t \in Callers |-> NoCall]
    /\ request = [t \in Callers |-> NoRequest]
    /\ order = [t \in Callers |-> <<>>]
    /\ idx = [t \in Callers |-> 0]
    /\ errors = [t \in Callers |-> <<>>]
    /\ results = [t \in Callers |-> <<>>]
    /\ inflight = [t \in Callers |-> {}]
    /\ sent = [t \in Callers |-> <<>>]
    /\ lastReply = [t \in Callers |-> NoReply]
    /\ log = [t \in Callers |-> <<>>]
    /\ result = [t \in Callers |-> NoResult]
    /\ clock = 0

\* first_ok run by task t, from its entry to the first `.await`
task_first_ok(t, c, req) ==
    /\ pc[t] = "idle"
    /\ \E o \in shuffled_endpoints :
          /\ endpoints' = shallow_copy_shuffled(o)
          /\ order' = [order EXCEPT ![t] = o]
          /\ inflight' = [inflight EXCEPT ![t] = Range(first_ok_polls(o, 1))]
          /\ sent' = [sent EXCEPT ![t] = wires(first_ok_polls(o, 1), req)]
    /\ pc' = [pc EXCEPT ![t] = "first_ok"]
    /\ call' = [call EXCEPT ![t] = c]
    /\ request' = [request EXCEPT ![t] = req]
    /\ idx' = [idx EXCEPT ![t] = 1]
    /\ errors' = [errors EXCEPT ![t] = <<>>]
    /\ UNCHANGED <<results, lastReply, log, result, clock>>

\* the request task t has in flight completes: first_ok_resume on t's locals
task_first_ok_resume(t) ==
    /\ pc[t] = "first_ok"
    /\ \E reply \in SharedReplies :
          LET res == handler(reply, request[t])
              m == first_ok_match(order[t], idx[t], errors[t], res)
              polled == IF m.done THEN <<>> ELSE first_ok_polls(order[t], m.next)
          IN  /\ lastReply' = [lastReply EXCEPT ![t] = reply]
              /\ log' = [log EXCEPT ![t] = Append(@, [res |-> res,
                                                       endpoint |-> order[t][idx[t]]])]
              /\ errors' = [errors EXCEPT ![t] = m.errors]
              /\ idx' = [idx EXCEPT ![t] = m.next]
              /\ pc' = [pc EXCEPT ![t] = IF m.done THEN "done" ELSE "first_ok"]
              /\ result' = [result EXCEPT
                              ![t] = IF m.done THEN caller_maps(call[t], m.ret) ELSE @]
              /\ inflight' = [inflight EXCEPT
                                ![t] = (@ \ {order[t][idx[t]]}) \cup Range(polled)]
              /\ sent' = [sent EXCEPT ![t] = @ \o wires(polled, request[t])]
    /\ UNCHANGED <<endpoints, call, request, order, results, clock>>

task_request_first_ok(t) ==
    \E path \in {"/v2/stats/leader"} :
        task_first_ok(t, Call("request_first_ok", [path |-> path]), get_request(path))

\* request_on_each_endpoint run by task t, from its entry to the first `.await`
task_request_on_each_endpoint(t, c, path) ==
    /\ pc[t] = "idle"
    /\ pc' = [pc EXCEPT ![t] = "broadcast"]
    /\ call' = [call EXCEPT ![t] = c]
    /\ request' = [request EXCEPT ![t] = get_request(path)]
    /\ idx' = [idx EXCEPT ![t] = 1]
    /\ results' = [results EXCEPT ![t] = <<>>]
    /\ inflight' = [inflight EXCEPT ![t] = {endpoints[1]}]
    /\ sent' = [sent EXCEPT ![t] = <<wire(endpoints[1], get_request(path))>>]
    /\ UNCHANGED <<endpoints, order, errors, lastReply, log, result, clock>>

task_health(t) == task_request_on_each_endpoint(t, Call("health", <<>>), "health")

task_versions(t) == task_request_on_each_endpoint(t, Call("versions", <<>>), "version")

\* the request task t has in flight completes: request_on_each_endpoint_resume on
\* t's locals and the shared list
task_request_on_each_endpoint_resume(t) ==
    /\ pc[t] = "broadcast"
    /\ \E reply \in SharedReplies :
          LET res == handler(reply, request[t])
              m == each_endpoint_push(endpoints, idx[t], results[t], res)
          IN  /\ lastReply' = [lastReply EXCEPT ![t] = reply]
              /\ log' = [log EXCEPT ![t] = Append(@, [res |-> res,
                                                       endpoint |-> endpoints[idx[t]]])]
              /\ results' = [results EXCEPT ![t] = m.results]
              /\ idx' = [idx EXCEPT ![t] = m.next]
              /\ pc' = [pc EXCEPT ![t] = IF m.done THEN "done" ELSE "broadcast"]
              /\ result' = [result EXCEPT
                              ![t] = IF m.done
                                     THEN [kind |-> "Results", val |-> m.results,
                                           tag |-> "Vec"]
                                     ELSE @]
              /\ inflight' = [inflight EXCEPT
                                ![t] = (@ \ {endpoints[idx[t]]}) \cup
                                          (IF m.done THEN {} ELSE {endpoints[m.next]})]
              /\ sent' = [sent EXCEPT
                            ![t] = IF m.done THEN @
                                   ELSE Append(@, wire(endpoints[m.next], request[t]))]
    /\ UNCHANGED <<endpoints, call, request, order, errors, clock>>

\* task t takes the result of its call
task_returns(t) ==
    /\ pc[t] = "done"
    /\ pc' = [pc EXCEPT ![t] = "idle"]
    /\ call' = [call EXCEPT ![t] = NoCall]
    /\ request' = [request EXCEPT ![t] = NoRequest]
    /\ order' = [order EXCEPT ![t] = <<>>]
    /\ idx' = [idx EXCEPT ![t] = 0]
    /\ errors' = [errors EXCEPT ![t] = <<>>]
    /\ results' = [results EXCEPT ![t] = <<>>]
    /\ inflight' = [inflight EXCEPT ![t] = {}]
    /\ sent' = [sent EXCEPT ![t] = <<>>]
    /\ lastReply' = [lastReply EXCEPT ![t] = NoReply]
    /\ log' = [log EXCEPT ![t] = <<>>]
    /\ result' = [result EXCEPT ![t] = NoResult]
    /\ clock' = 0
    /\ UNCHANGED endpoints

SharedNext ==
    \E t \in Callers :
        \/ task_request_first_ok(t)
        \/ task_health(t)
        \/ task_versions(t)
        \/ task_first_ok_resume(t)
        \/ task_request_on_each_endpoint_resume(t)
        \/ task_returns(t)

SharedSpec == SharedInit /\ [][SharedNext]_vars

(***************************************************************************)
(* C25.  The endpoint list of a Client is never modified: no step of any   *)
(* call changes it.  With calls of two tasks interleaved on one Client, a  *)
(* broadcast visits the endpoints in the configured order whatever the     *)
(* other task's call shuffles; the visit order of a first_ok call is a     *)
(* permutation of the configured list, drawn for that call, and its error  *)
(* accumulator holds the errors of its own requests, in its own order; and *)
(* a step of one task's call leaves the other task's call as it is.        *)
(***************************************************************************)
\* the locals of task t's call
Locals(t) ==
    <<pc[t], call[t], request[t], order[t], idx[t], errors[t], results[t], inflight[t],
      sent[t], lastReply[t], log[t], result[t]>>

\* the errors the handler returned for task t's requests so far, in order
OwnErrors(t) ==
    LET failed == SelectSeq(log[t], LAMBDA e : ~e.res.ok)
    IN  [i \in 1..Len(failed) |-> failed[i].res.err]

C25_CallState(t) ==
    /\ pc[t] \in {"broadcast", "done"} /\ call[t].op \in {"health", "versions"} =>
          /\ \A k \in 1..Len(sent[t]) : sent[t][k].endpoint = endpoints[k]
          /\ \A k \in 1..Len(log[t]) : log[t][k].endpoint = endpoints[k]
          /\ pc[t] = "done" => Len(result[t].val) = Len(endpoints)
    /\ order[t] # <<>> =>
          /\ Len(order[t]) = Len(endpoints)
          /\ Range(order[t]) = Range(endpoints)
          /\ \A k \in 1..Len(sent[t]) : sent[t][k].endpoint = order[t][k]
          /\ errors[t] = OwnErrors(t)

C25_EndpointsReadOnly ==
    /\ [](\A t \in Callers : C25_CallState(t))
    /\ [][ /\ endpoints' = endpoints
           /\ \A t, u \in Callers :
                 (t # u /\ Locals(t)' # Locals(t)) => Locals(u)' = Locals(u) ]_vars

\* task a is on the second endpoint of an order that is not the configured one,
\* with the error of its first request collected, while task b's broadcast has
\* moved on to the second configured endpoint
C25_Witness ==
    /\ Len(endpoints) = 2
    /\ pc["a"] = "first_ok"
    /\ order["a"] = <<endpoints[2], endpoints[1]>>
    /\ errors["a"] = <<ErrorHttp>>
    /\ Len(sent["a"]) = 2
    /\ pc["b"] = "broadcast"
    /\ Len(sent["b"]) = 2
    /\ sent["b"][2].endpoint = endpoints[2]
    /\ log["b"][1].res.ok

(***************************************************************************)
(* Every operation that goes through first_ok or request_on_each_endpoint: *)
(* the key-value calls, the client's own calls and the members and auth    *)
(* calls, on the same client.                                              *)
(***************************************************************************)
ApiNext == Next \/ AdminNext

ApiSpec == Init /\ [][ApiNext]_vars

(***************************************************************************)
(* C26.  All the attempts of one first_ok call carry the same request.     *)
(* What the handler captured (method, path, query string, body) is fixed   *)
(* when the call enters first_ok and is not changed while the call runs;   *)
(* the request of the k-th attempt is that one, sent to the k-th endpoint  *)
(* of the visit order: the attempts differ in the endpoint, which is the   *)
(* base of the URL, and in nothing else.                                   *)
(***************************************************************************)
C26_Attempts ==
    InFirstOk =>
        \A k \in 1..Len(sent) :
            /\ sent[k].method = request.method
            /\ sent[k].body = request.body
            /\ sent[k].url.query = request.query
            /\ sent[k].url.path = sent[1].url.path
            /\ sent[k].url.endpoint = order[k]
            /\ sent[k] = [sent[1] EXCEPT !.endpoint = order[k], !.url.endpoint = order[k]]

C26_SameRequest ==
    /\ []C26_Attempts
    /\ [][pc = "first_ok" => request' = request]_vars

\* create_user on its second attempt: the same PUT with the same JSON body,
\* sent to the other endpoint
C26_Witness ==
    /\ InFirstOk
    /\ call.op = "auth::create_user"
    /\ Len(sent) = 2
    /\ sent[1].endpoint # sent[2].endpoint
    /\ sent[1].endpoint = endpoints[2]
    /\ sent[1].method = "PUT"
    /\ sent[2].method = "PUT"
    /\ sent[1].body = Some(<<<<"user", "root">>, <<"password", "secret">>>>)
    /\ sent[2].body = sent[1].body
    /\ sent[2].url.path = "v2/auth/users/root"

(***************************************************************************)
(* C27.  Within one first_ok call at most one request is answered with a   *)
(* success status: once an endpoint has answered a mutating call with a    *)
(* status the operation takes for a success, the call is over and the      *)
(* request is not sent to another endpoint.                                *)
(***************************************************************************)
MutatingOps == KvOps \ {"get"}

\* the request completed last was answered with a success status of the operation
Accepted ==
    /\ Len(log) > 0
    /\ lastReply.kind = "response"
    /\ lastReply.status \in request.success

C27_AcceptedOnce ==
    (InFirstOk /\ call.op \in MutatingOps /\ Accepted) =>
        /\ pc = "done"
        /\ Len(sent) = Len(log)
        /\ inflight = {}

(***************************************************************************)
(* kv.rs: watch and its deadline, with time.  `timeout(duration, fut)`     *)
(* polls fut, the whole of raw_get, and when fut is pending a Sleep that   *)
(* fires duration after timeout was called.  clock counts the ticks since  *)
(* the call started; time passes while the call is suspended on a request, *)
(* and the call is resumed when the Sleep fires, not later.                *)
(***************************************************************************)
Durations == {1, 2}

\* a deadline that starts again with every request the call sends
deadline_per_request(duration, requests) == duration * requests

\* the instant, counted from the start of the call, at which the Sleep of
\* `timeout(duration, fut)` fires, for a call that has sent so many requests
deadline(duration, requests) == duration

timed_watch ==
    \E key \in Keys, index \in WaitIndexes, recursive \in BOOLEAN,
       timeout \in { Some(d) : d \in Durations } :
        raw_get(Call("watch", [recursive |-> recursive, key |-> key, index |-> index,
                               timeout |-> timeout]),
                key,
                [DefaultGetOptions EXCEPT
                   !.recursive = recursive, !.wait_index = index, !.wait = TRUE])

\* a tick passes while the watch waits for the answer to its request
tick ==
    /\ pc = "first_ok"
    /\ clock < deadline(unwrap(call.args.timeout), Len(sent))
    /\ clock' = clock + 1
    /\ UNCHANGED <<endpoints, pc, call, request, order, idx, errors, results, inflight,
                   sent, lastReply, log, result>>

\* the Sleep fires: `Err(_elapsed) => Err(WatchError::Timeout)`
timed_watch_elapsed ==
    /\ watch_elapsed
    /\ clock >= deadline(unwrap(call.args.timeout), Len(sent))

WatchNext ==
    \/ timed_watch
    \/ tick
    \/ first_ok_resume
    \/ timed_watch_elapsed
    \/ call_returns

WatchSpec == Init /\ [][WatchNext]_vars

(***************************************************************************)
(* C28.  The deadline of a watch is one deadline over the whole failover   *)
(* sequence.  The time of a watch with timeout d runs on from one endpoint *)
(* to the next and never exceeds d: the watch has returned, with a         *)
(* response, an error list or Timeout, by the time d has passed, however   *)
(* many endpoints are configured.  It returns Timeout at d and not before, *)
(* and Timeout carries none of the errors collected from the endpoints     *)
(* that had failed.                                                        *)
(***************************************************************************)
C28_Within ==
    call.op = "watch" =>
        LET d == unwrap(call.args.timeout)
        IN  /\ clock <= d
            /\ result = WatchTimeout =>
                  /\ pc = "done"
                  /\ clock = d
                  /\ result.val = <<>>
                  /\ inflight = {}

C28_SingleDeadline ==
    /\ []C28_Within
    /\ [][ /\ (pc = "first_ok" /\ pc' # "idle") => clock' \in {clock, clock + 1}
           /\ (pc = "first_ok" /\ Len(sent') > Len(sent)) => clock' = clock ]_vars

\* a watch with a timeout of two ticks on two endpoints: the first endpoint has
\* failed, and the deadline passes on the second two ticks after the start; the
\* error of the first is not in what the watch returns
C28_Witness ==
    /\ call.op = "watch"
    /\ call.args.timeout = Some(2)
    /\ Len(endpoints) = 2
    /\ Len(sent) = 2
    /\ errors = <<ErrorHttp>>
    /\ clock = 2
    /\ result = WatchTimeout

(***************************************************************************)
(* C29.  The expect of request_first_ok ("errors array should never be     *)
(* empty") never fails.  A client has at least one endpoint; a first_ok    *)
(* call that returns Err has collected one error per endpoint, so its list *)
(* is not empty; and request_first_ok, which takes the first element of    *)
(* that list, returns it and does not panic.                               *)
(***************************************************************************)
C29_ErrorsNeverEmpty ==
    /\ Len(endpoints) >= 1
    /\ result.kind # "Panic"
    /\ (InFirstOk /\ pc = "done" /\ result.tag = "Err" /\ result # WatchTimeout) =>
          /\ errors # <<>>
          /\ Len(errors) = Len(endpoints)
          /\ result.kind \in {"Errors", "Other"} => result.val = errors
          /\ call.op = "request_first_ok" =>
                result = [kind |-> "Error", val |-> errors[1], tag |-> "Err"]

\* request_first_ok on a client with one endpoint, which refuses the connection
C29_Witness ==
    /\ InFirstOk
    /\ pc = "done"
    /\ call.op = "request_first_ok"
    /\ Len(endpoints) = 1
    /\ errors = <<ErrorHttp>>
    /\ result = [kind |-> "Error", val |-> ErrorHttp, tag |-> "Err"]

(***************************************************************************)
(* The calls under the assumption that every request completes: a request  *)
(* in flight is answered or fails, so a call suspended on one is resumed.  *)
(***************************************************************************)
LiveSpec ==
    /\ Init
    /\ [][Next]_vars
    /\ WF_vars(first_ok_resume)
    /\ WF_vars(request_on_each_endpoint_resume)

(***************************************************************************)
(* C30.  If every request completes, every first_ok call and every         *)
(* broadcast call returns, and it has sent at most one request per         *)
(* configured endpoint by then: the loop goes through the endpoints once,  *)
(* no endpoint is asked twice, and each completed request takes the call   *)
(* one position further or ends it.                                        *)
(***************************************************************************)
\* the current call is suspended on a request
Suspended == pc \in {"first_ok", "broadcast"}

C30_AtMostOnce ==
    /\ Len(sent) <= Len(endpoints)
    /\ Injective(Contacted)
    /\ Suspended => idx = Len(sent) /\ Len(log) = Len(sent) - 1

C30_Terminates ==
    /\ []C30_AtMostOnce
    /\ [][Suspended => (Len(log') = Len(log) + 1 \/ pc' = "done")]_vars
    /\ Suspended ~> pc = "done"

\* a broadcast that has asked both endpoints and returned
C30_Witness ==
    /\ pc = "done"
    /\ call.op = "health"
    /\ Len(endpoints) = 2
    /\ Len(sent) = 2
    /\ Len(log) = 2
    /\ sent[1].endpoint # sent[2].endpoint

====
